---- MODULE Spec2Model ----
(***************************************************************************)
(* Model of the AVA prototype ledger                                       *)
(* (research/models/adamprotocol/AVA-prototype/src/blockchain.rs).         *)
(*                                                                         *)
(* State: the four fields of AvaBlockchain, plus `last`, the record of     *)
(* the most recent call (operation, argument, returned Result).            *)
(*                                                                         *)
(* Abstractions, all in calculate_hash:                                    *)
(*  - SHA-256 is collision resistant: a digest is the pair of its first    *)
(*    two hexadecimal characters (`hex`, all that starts_with ever reads   *)
(*    for the difficulties 1 and 2 the ledger uses) and the preimage it    *)
(*    was computed from (`pre`), so two digests are equal exactly when     *)
(*    their preimages are;                                                 *)
(*  - the two leading characters are an arithmetic mix of the six          *)
(*    preimage fields under which mining always ends;                      *)
(*  - fields of Transaction and EntityMetadata that no operation reads     *)
(*    (recipient, signature, timestamps, descriptions, capabilities ...)   *)
(*    are part of the serialized payload only and are left out.            *)
(***************************************************************************)
EXTENDS Integers, Naturals, Sequences, FiniteSets, TLC

\* AvaBlockchain, and the record of the last call made on it
VARIABLES chain, pending_transactions, entities, genesis_created, last

vars == <<chain, pending_transactions, entities, genesis_created, last>>

\* ConstitutionalEngine, the clock its operations read, and the record of the last call
VARIABLES active_proposals, voting_records, constitutional_history, now, engine_last

\* history of the engine: the votes each stored proposal held when submit_proposal
\* stored it
VARIABLES submitted_votes

engine_vars == <<active_proposals, voting_records, constitutional_history, now, engine_last,
                 submitted_votes>>

\* one run of mine_block, step by step: the block it was called with, the block as the
\* loop has it (&mut block), where the run is, and the hash it returned
VARIABLES mine_from, mine_at, mine_pc, mine_ret

mine_vars == <<mine_from, mine_at, mine_pc, mine_ret>>

\* the rules of the ConstitutionalEngine and the record of the last read-only call on it
\* (validate_transaction, get_stats)
VARIABLES rules, query_last

rule_vars == <<rules, query_last>>

\* GenesisBuilder: its configuration, the pair of blocks build_dual_genesis returned,
\* and the record of the last call on it or on one of its blocks
VARIABLES genesis_config, genesis_built, genesis_last

genesis_vars == <<genesis_config, genesis_built, genesis_last>>

all_vars == <<vars, engine_vars, mine_vars, rule_vars, genesis_vars>>

(***************************************************************************)
(* Bounds                                                                  *)
(***************************************************************************)
\* accepted transactions (pending or sealed) over one run
MaxTx == 2

\* block timestamps: Utc::now() in seconds, read from a clock that does not run backwards
Times == {0, 1}

(***************************************************************************)
(* Strings and values of the source                                        *)
(***************************************************************************)
ROOT == "Artifact Virtual Intelligence"
AVA == "AVA"
SYSTEM == "system"

None == <<>>
Some(x) == <<x>>

\* String::new()
EmptyString == [hex |-> <<>>, pre |-> <<>>]
\* "0".to_string(), the previous_hash of block 0
ZeroSentinel == [hex |-> <<0>>, pre |-> <<>>]

HexBase == 16

TxIds == {"", "tx1"}
TxSenders == {ROOT, AVA, SYSTEM}
\* the kind and the payload of a submitted transaction: no operation of the ledger reads
\* either, they only enter the serialized payload of the block
TxBodies == { <<"EntityRegistration", "object">>, <<"GovernanceProposal", "null">> }

Transaction(id, kind, sender, data, cv) ==
    [id |-> id, transaction_type |-> kind, sender |-> sender, data |-> data,
     constitutional_validation |-> cv]

\* the transactions callers submit
Transactions ==
    { Transaction(id, body[1], sender, body[2], cv) :
        id \in TxIds, body \in TxBodies, sender \in TxSenders, cv \in BOOLEAN }

NoTransaction == Transaction("", "none", "", "none", FALSE)

EntityMetadata(name, parent, constraints) ==
    [name |-> name, parent_entity |-> parent, constitutional_constraints |-> constraints]

BlockData(txs, meta, constitutional_rules) ==
    [transactions |-> txs, entity_metadata |-> meta, constitutional_rules |-> constitutional_rules,
     governance_actions |-> <<>>]

Block(index, timestamp, previous_hash, hash, data, nonce, difficulty) ==
    [index |-> index, timestamp |-> timestamp, previous_hash |-> previous_hash,
     hash |-> hash, data |-> data, nonce |-> nonce, difficulty |-> difficulty]

(***************************************************************************)
(* calculate_hash and mine_block                                           *)
(***************************************************************************)
StringTable ==
    <<"", "tx1", ROOT, AVA, SYSTEM, "EntityRegistration", "GovernanceProposal",
      "GenesisCreation", "null", "object", "metadata",
      "genesis_artifact_virtual_intelligence", "genesis_ava",
      "GenesisReferenceRequired", "ConstitutionalAmendment",
      "ArtifactVirtualIntelligenceApproval", "VotingQuorum", "ConsensusRequired",
      "Artifact Virtual", "genesis_artifact_virtual_0", "genesis_ava_1", "SYSTEM_GENESIS",
      "Custom Organization">>

StrCode(s) == CHOOSE i \in 1..Len(StringTable) : StringTable[i] = s

TxCode(tx) ==
    StrCode(tx.id) + 3 * StrCode(tx.transaction_type) + 5 * StrCode(tx.sender)
    + 7 * StrCode(tx.data) + (IF tx.constitutional_validation THEN 11 ELSE 0)

RECURSIVE TxsCode(_)
TxsCode(txs) ==
    IF txs = <<>> THEN 0
    ELSE (31 * TxsCode(SubSeq(txs, 1, Len(txs) - 1)) + TxCode(txs[Len(txs)])) % 1009

RECURSIVE RulesCode(_)
RulesCode(constitutional_rules) ==
    IF constitutional_rules = <<>> THEN 0
    ELSE (31 * RulesCode(SubSeq(constitutional_rules, 1, Len(constitutional_rules) - 1)) + StrCode(constitutional_rules[Len(constitutional_rules)])) % 1009

MetaCode(meta) ==
    IF meta = None THEN 0
    ELSE StrCode(meta[1].name) + 3 * Len(meta[1].parent_entity)
         + RulesCode(meta[1].constitutional_constraints)

\* serde_json::to_string(&block.data), as far as the leading characters of the digest go
DataCode(data) ==
    TxsCode(data.transactions) + 5 * MetaCode(data.entity_metadata)
    + 7 * RulesCode(data.constitutional_rules)

RECURSIVE HexValue(_)
HexValue(digits) ==
    IF digits = <<>> THEN 0
    ELSE HexBase * HexValue(SubSeq(digits, 1, Len(digits) - 1)) + digits[Len(digits)]

\* the string that format!("{}{}{}{}{}{}", ...) builds and the hasher is fed
Preimage(block) ==
    <<block.index, block.timestamp, block.previous_hash, block.data, block.nonce,
      block.difficulty>>

\* the first two characters of format!("{:x}", hasher.finalize()): each is '0' for
\* one nonce residue in 3 (first character) or in 5 (second character), so that some
\* nonce among any 15 consecutive ones gives two leading zeros
Sha256Prefix(block) ==
    LET a == 7 * block.index + 13 * block.timestamp + 3 * HexValue(block.previous_hash.hex)
             + 5 * DataCode(block.data) + 17 * block.difficulty + 1
        n == block.nonce
    IN  << IF (a + n) % 3 = 0 THEN 0 ELSE 1 + ((a + 2 * n) % (HexBase - 1)),
           IF ((a \div 3) + n) % 5 = 0 THEN 0 ELSE 1 + ((a + 3 * n) % (HexBase - 1)) >>

calculate_hash(block) == [hex |-> Sha256Prefix(block), pre |-> Preimage(block)]

\* "0".repeat(n)
Zeros(n) == [k \in 1..n |-> 0]

\* hash.starts_with(&target)
starts_with(hash, target) ==
    /\ Len(hash.hex) >= Len(target)
    /\ \A k \in 1..Len(target) : hash.hex[k] = target[k]

\* the loop of mine_block: the block as the loop leaves it (&mut block)
RECURSIVE mine_loop(_)
mine_loop(block) ==
    IF starts_with(calculate_hash(block), Zeros(block.difficulty))
    THEN block
    ELSE mine_loop([block EXCEPT !.nonce = @ + 1])

\* mutation: the hash returned is the one of the nonce the search started from
mine_block_first_hash(block) ==
    [hash |-> calculate_hash(block), block |-> mine_loop(block)]

\* mine_block(&mut block) -> String: the returned hash and the block it leaves
mine_block(block) ==
    LET mined == mine_loop(block)
    IN  [hash |-> calculate_hash(mined), block |-> mined]

(***************************************************************************)
(* Components that are not running                                         *)
(***************************************************************************)
NoVote == [voter |-> "", vote_type |-> "none"]

NoProposal ==
    [id |-> "", title |-> "", voting_deadline |-> 0, required_quorum |-> <<0, 1>>,
     required_majority |-> <<0, 1>>, votes |-> <<>>, status |-> "none"]

\* a call on the engine and its Result; the vote and the proposal passed are kept
\* for the calls that returned Ok
EngineCall(op, proposal_id, vote, proposal, result) ==
    [op |-> op, proposal_id |-> proposal_id, vote |-> vote, proposal |-> proposal,
     result |-> result]

\* ConstitutionalEngine::new(): no proposal, no voting record, no event
EngineIdle ==
    /\ active_proposals = <<>>
    /\ voting_records = <<>>
    /\ constitutional_history = <<>>
    /\ now = 0
    /\ engine_last = EngineCall("new", "", NoVote, NoProposal, "Ok")
    /\ submitted_votes = <<>>

MineIdle ==
    /\ mine_from = Block(0, 0, EmptyString, EmptyString, BlockData(<<>>, None, <<>>), 0, 0)
    /\ mine_at = mine_from
    /\ mine_pc = "idle"
    /\ mine_ret = EmptyString

GovernanceRule(id, rule_type, enforcement_level, active) ==
    [id |-> id, rule_type |-> rule_type, enforcement_level |-> enforcement_level,
     active |-> active]

\* initialize_foundational_rules: the four rules new() registers, in this order
foundational_rules ==
    << GovernanceRule("artifact_virtual_supremacy", "ConstitutionalRule",
                      "Constitutional", TRUE),
       GovernanceRule("ava_governance_authority", "AuthorizationRule", "Blocking", TRUE),
       GovernanceRule("democratic_voting", "VotingRule", "Blocking", TRUE),
       GovernanceRule("transparency_requirement", "OperationalRule", "Blocking", TRUE) >>

\* a read-only call on the engine, its argument and what it returned
Query(op, tx, result) == [op |-> op, tx |-> tx, result |-> result]

NoQueryTransaction ==
    [id |-> "", transaction_type |-> "none", sender |-> "", data |-> "none",
     constitutional_validation |-> FALSE]

\* ConstitutionalEngine::new(): the foundational rules, no call made yet
RulesIdle ==
    /\ rules = foundational_rules
    /\ query_last = Query("new", NoQueryTransaction, "Ok")

EntityConfig(name, maintainers, constitutional_constraints) ==
    [name |-> name, maintainers |-> maintainers,
     constitutional_constraints |-> constitutional_constraints]

GenesisConfig(artifact_virtual_config, ava_config, initial_difficulty, genesis_timestamp) ==
    [artifact_virtual_config |-> artifact_virtual_config, ava_config |-> ava_config,
     initial_difficulty |-> initial_difficulty, genesis_timestamp |-> genesis_timestamp]

\* GenesisBuilder::new(), with the clock at 0
default_genesis_config ==
    GenesisConfig(
        EntityConfig("Artifact Virtual",
                     <<"genesis@artifactvirtual.com", "foundation@artifactvirtual.com">>,
                     <<"GenesisReferenceRequired", "ConstitutionalAmendment">>),
        EntityConfig("AVA",
                     <<"ava@artifactvirtual.com", "constitutional@artifactvirtual.com">>,
                     <<"ArtifactVirtualIntelligenceApproval", "VotingQuorum",
                       "ConsensusRequired">>),
        1, 0)

\* a builder nothing was asked of
GenesisIdle ==
    /\ genesis_config = default_genesis_config
    /\ genesis_built = <<>>
    /\ genesis_last = [op |-> "new", result |-> "Ok"]

(***************************************************************************)
(* AvaBlockchain                                                           *)
(***************************************************************************)
Ok == "Ok"

NoBlock == Block(0, 0, EmptyString, EmptyString, BlockData(<<>>, None, <<>>), 0, 0)

\* a call, its argument and its Result; `block` is the Block of an Ok(Block)
Call(op, tx, result) == [op |-> op, tx |-> tx, result |-> result, block |-> NoBlock]

\* AvaBlockchain::new()
Init ==
    /\ chain = <<>>
    /\ pending_transactions = <<>>
    /\ entities = <<>>
    /\ genesis_created = FALSE
    /\ last = Call("new", NoTransaction, Ok)

artifact_virtual_metadata ==
    EntityMetadata(ROOT, None, <<"GenesisReferenceRequired", "ConstitutionalAmendment">>)

ava_metadata ==
    EntityMetadata(AVA, Some(ROOT),
                   <<"ArtifactVirtualIntelligenceApproval", "VotingQuorum", "ConsensusRequired">>)

genesis_transaction_av ==
    Transaction("genesis_artifact_virtual_intelligence", "GenesisCreation", SYSTEM,
                "metadata", TRUE)

genesis_transaction_ava ==
    Transaction("genesis_ava", "GenesisCreation", ROOT, "metadata", TRUE)

genesis_block_av(t) ==
    Block(0, t, ZeroSentinel, EmptyString,
          BlockData(<<genesis_transaction_av>>, Some(artifact_virtual_metadata),
                    <<"GenesisReferenceRequired", "ArtifactVirtualIntelligenceApproval">>),
          0, 1)

genesis_block_ava(t) ==
    Block(1, t, EmptyString, EmptyString,
          BlockData(<<genesis_transaction_ava>>, Some(ava_metadata),
                    <<"ArtifactVirtualIntelligenceApproval", "VotingQuorum",
                      "ConsensusRequired">>),
          0, 1)

\* mutation: block 1 is linked to the hash block 0 has before it is mined
genesis_chain_link_then_seal(c, t0, t1) ==
    LET av_mined  == mine_block(genesis_block_av(t0))
        av_block  == [av_mined.block EXCEPT !.hash = av_mined.hash]
        c1        == Append(c, av_block)
        ava_block == [genesis_block_ava(t1) EXCEPT
                         !.previous_hash = calculate_hash(genesis_block_av(t0))]
        ava_mined == mine_block(ava_block)
    IN  Append(c1, [ava_mined.block EXCEPT !.hash = ava_mined.hash])

\* "Mine and add blocks": the chain after the two pushes of create_dual_genesis
genesis_chain(c, t0, t1) ==
    LET av_mined  == mine_block(genesis_block_av(t0))
        av_block  == [av_mined.block EXCEPT !.hash = av_mined.hash]
        c1        == Append(c, av_block)
        ava_block == [genesis_block_ava(t1) EXCEPT !.previous_hash = av_block.hash]
        ava_mined == mine_block(ava_block)
    IN  Append(c1, [ava_mined.block EXCEPT !.hash = ava_mined.hash])

\* mutation: both entities are inserted under the root's name
genesis_entities_same_key(e) ==
    LET e1 == [n \in DOMAIN e \cup {ROOT} |-> IF n = ROOT THEN artifact_virtual_metadata ELSE e[n]]
    IN  [n \in DOMAIN e1 \cup {ROOT} |-> IF n = ROOT THEN ava_metadata ELSE e1[n]]

\* mutation: only the root entity is registered
genesis_entities_root_only(e) ==
    [n \in DOMAIN e \cup {ROOT} |-> IF n = ROOT THEN artifact_virtual_metadata ELSE e[n]]

\* "Register entities"
genesis_entities(e) ==
    LET e1 == [n \in DOMAIN e \cup {ROOT} |-> IF n = ROOT THEN artifact_virtual_metadata ELSE e[n]]
    IN  [n \in DOMAIN e1 \cup {AVA} |-> IF n = AVA THEN ava_metadata ELSE e1[n]]

\* mutation: no genesis_created guard
CreateDualGenesisUnguarded ==
    \E t0 \in Times, t1 \in Times :
        /\ t0 <= t1
        /\ chain' = genesis_chain(chain, t0, t1)
        /\ entities' = genesis_entities(entities)
        /\ genesis_created' = TRUE
        /\ last' = Call("create_dual_genesis", NoTransaction, Ok)
        /\ UNCHANGED pending_transactions

CreateDualGenesis ==
    IF genesis_created
    THEN /\ last' = Call("create_dual_genesis", NoTransaction, "Genesis blocks already created")
         /\ UNCHANGED <<chain, pending_transactions, entities, genesis_created>>
    ELSE \E t0 \in Times, t1 \in Times :
            /\ t0 <= t1
            /\ chain' = genesis_chain(chain, t0, t1)
            /\ entities' = genesis_entities(entities)
            /\ genesis_created' = TRUE
            /\ last' = Call("create_dual_genesis", NoTransaction, Ok)
            /\ UNCHANGED pending_transactions

\* mutation: the entity's parent is compared with the entity's own name
has_approval_from_self(entity_name, parent_name) ==
    IF entity_name \in DOMAIN entities
    THEN entities[entity_name].parent_entity = Some(entity_name)
    ELSE FALSE

has_approval_from_parent(entity_name, parent_name) ==
    IF entity_name \in DOMAIN entities
    THEN entities[entity_name].parent_entity = Some(parent_name)
    ELSE FALSE

\* the `for rule in &entity.constitutional_constraints` loop of validate_transaction
RECURSIVE check_constraints(_, _)
check_constraints(constitutional_rules, transaction) ==
    IF constitutional_rules = <<>> THEN Ok
    ELSE IF /\ Head(constitutional_rules) = "ArtifactVirtualIntelligenceApproval"
            /\ transaction.sender # ROOT
            /\ ~has_approval_from_parent(transaction.sender, ROOT)
         THEN "Requires Artifact Virtual Intelligence approval"
    ELSE IF /\ Head(constitutional_rules) = "VotingQuorum"
            /\ ~transaction.constitutional_validation
         THEN "Voting quorum not met"
    ELSE check_constraints(Tail(constitutional_rules), transaction)

\* mutation: a sender that is no registered entity is refused
validate_transaction_known_only(transaction) ==
    IF transaction.id = "" THEN "Transaction ID cannot be empty"
    ELSE IF transaction.sender \in DOMAIN entities
         THEN check_constraints(entities[transaction.sender].constitutional_constraints,
                                transaction)
    ELSE "Unknown sender"

\* Ok stands for Ok(true); the function never returns Ok(false)
validate_transaction(transaction) ==
    IF transaction.id = "" THEN "Transaction ID cannot be empty"
    ELSE IF transaction.sender \in DOMAIN entities
         THEN check_constraints(entities[transaction.sender].constitutional_constraints,
                                transaction)
    ELSE Ok

\* transactions accepted so far: sealed after genesis, or pending
RECURSIVE SealedCount(_)
SealedCount(c) ==
    IF c = <<>> THEN 0
    ELSE SealedCount(SubSeq(c, 1, Len(c) - 1))
         + (IF c[Len(c)].index >= 2 THEN Len(c[Len(c)].data.transactions) ELSE 0)

AcceptedCount == SealedCount(chain) + Len(pending_transactions)

\* mutation: no genesis_created guard
add_transaction_result_unguarded(transaction) == validate_transaction(transaction)

\* the Result add_transaction returns
add_transaction_result(transaction) ==
    IF ~genesis_created THEN "Genesis blocks must be created first"
    ELSE validate_transaction(transaction)

\* mutation: the transaction is pushed before it is validated
add_transaction_pool_push_first(transaction) == Append(pending_transactions, transaction)

\* mutation: the pool takes every valid transaction, genesis or not
add_transaction_pool_before_genesis(transaction) ==
    IF validate_transaction(transaction) = Ok
    THEN Append(pending_transactions, transaction)
    ELSE pending_transactions

\* the pending pool add_transaction leaves
add_transaction_pool(transaction) ==
    IF add_transaction_result(transaction) = Ok
    THEN Append(pending_transactions, transaction)
    ELSE pending_transactions

AddTransaction ==
    \E transaction \in Transactions :
        /\ AcceptedCount < MaxTx
        /\ last' = Call("add_transaction", transaction, add_transaction_result(transaction))
        /\ pending_transactions' = add_transaction_pool(transaction)
        /\ UNCHANGED <<chain, entities, genesis_created>>

\* mutation: the new block repeats the link of the block before it
new_block_stale_link(previous_block, t) ==
    Block(previous_block.index + 1, t, previous_block.previous_hash, EmptyString,
          BlockData(pending_transactions, None, <<>>), 0, 2)

\* mutation: the block takes the first pending transaction only
new_block_first_transaction(previous_block, t) ==
    Block(previous_block.index + 1, t, previous_block.hash, EmptyString,
          BlockData(<<Head(pending_transactions)>>, None, <<>>), 0, 2)

new_block(previous_block, t) ==
    Block(previous_block.index + 1, t, previous_block.hash, EmptyString,
          BlockData(pending_transactions, None, <<>>), 0, 2)

\* mutation: the block is pushed with the hash it was built with
sealed_block_hash_unset(block) ==
    LET mined == mine_block(block)
    IN  mined.block

\* new_block.hash = self.mine_block(&mut new_block)
sealed_block(block) ==
    LET mined == mine_block(block)
    IN  [mined.block EXCEPT !.hash = mined.hash]

\* mutation: no check of the pending pool
CreateBlockUnguarded ==
    /\ chain # <<>>
    /\ \E t \in Times :
            /\ chain[Len(chain)].timestamp <= t
            /\ chain' = Append(chain, sealed_block(new_block(chain[Len(chain)], t)))
            /\ pending_transactions' = <<>>
            /\ last' = [Call("create_block", NoTransaction, Ok) EXCEPT
                            !.block = chain'[Len(chain')]]
            /\ UNCHANGED <<entities, genesis_created>>

CreateBlock ==
    IF pending_transactions = <<>>
    THEN /\ last' = Call("create_block", NoTransaction, "No pending transactions")
         /\ UNCHANGED <<chain, pending_transactions, entities, genesis_created>>
    ELSE IF chain = <<>>
    THEN /\ last' = Call("create_block", NoTransaction, "No previous block found")
         /\ UNCHANGED <<chain, pending_transactions, entities, genesis_created>>
    ELSE \E t \in Times :
            /\ chain[Len(chain)].timestamp <= t
            /\ chain' = Append(chain, sealed_block(new_block(chain[Len(chain)], t)))
            /\ pending_transactions' = <<>>
            /\ last' = [Call("create_block", NoTransaction, Ok) EXCEPT
                            !.block = chain'[Len(chain')]]
            /\ UNCHANGED <<entities, genesis_created>>

\* mine_pending_transactions(miner): the miner is only printed; create_block()? passes
\* an error on and its Block is dropped
MinePendingTransactions ==
    IF pending_transactions = <<>>
    THEN /\ last' = Call("mine_pending_transactions", NoTransaction,
                         "No pending transactions to mine")
         /\ UNCHANGED <<chain, pending_transactions, entities, genesis_created>>
    ELSE IF chain = <<>>
    THEN /\ last' = Call("mine_pending_transactions", NoTransaction, "No previous block found")
         /\ UNCHANGED <<chain, pending_transactions, entities, genesis_created>>
    ELSE \E t \in Times :
            /\ chain[Len(chain)].timestamp <= t
            /\ chain' = Append(chain, sealed_block(new_block(chain[Len(chain)], t)))
            /\ pending_transactions' = <<>>
            /\ last' = Call("mine_pending_transactions", NoTransaction, Ok)
            /\ UNCHANGED <<entities, genesis_created>>

\* for i in 1..self.chain.len(): Rust index i is position i + 1
is_chain_valid(c) ==
    \A i \in 1..(Len(c) - 1) :
        /\ c[i + 1].hash = calculate_hash(c[i + 1])
        /\ c[i + 1].previous_hash = c[i].hash

Next ==
    \/ CreateDualGenesis /\ UNCHANGED <<engine_vars, mine_vars, rule_vars, genesis_vars>>
    \/ AddTransaction /\ UNCHANGED <<engine_vars, mine_vars, rule_vars, genesis_vars>>
    \/ CreateBlock /\ UNCHANGED <<engine_vars, mine_vars, rule_vars, genesis_vars>>
    \/ MinePendingTransactions /\ UNCHANGED <<engine_vars, mine_vars, rule_vars, genesis_vars>>

\* the ledger alone: no engine is running and no block is being mined step by step
LedgerInit == Init /\ EngineIdle /\ MineIdle /\ RulesIdle /\ GenesisIdle

Spec == LedgerInit /\ [][Next]_all_vars

(***************************************************************************)
(* mine_block, one loop iteration per step                                 *)
(***************************************************************************)
\* the highest difficulty the ledger mines with (create_block)
MaxDifficulty == 2

\* the nonces a mined block starts from range over 0..MaxStartNonce
MaxStartNonce == 2

MinePayloads ==
    { BlockData(txs, None, <<>>) :
        txs \in { <<>>,
                  <<Transaction("tx1", "EntityRegistration", AVA, "object", TRUE)>>,
                  <<Transaction("tx1", "GovernanceProposal", SYSTEM, "null", FALSE)>> } }

\* the blocks mine_block is called with
MineInputs ==
    { Block(index, t, ZeroSentinel, EmptyString, data, nonce, difficulty) :
        index \in 0..2, t \in Times, data \in MinePayloads,
        nonce \in 0..MaxStartNonce, difficulty \in 0..MaxDifficulty }

MineInit ==
    /\ Init
    /\ EngineIdle
    /\ RulesIdle
    /\ GenesisIdle
    /\ mine_from \in MineInputs
    /\ mine_at = mine_from
    /\ mine_pc = "searching"
    /\ mine_ret = EmptyString

\* mutation: the target is "0" whatever the difficulty
mine_found_one_zero(block) == starts_with(calculate_hash(block), Zeros(1))

\* let hash = self.calculate_hash(block); hash.starts_with(&target)
mine_found(block) == starts_with(calculate_hash(block), Zeros(block.difficulty))

\* return hash
MineReturn ==
    /\ mine_pc = "searching"
    /\ mine_found(mine_at)
    /\ mine_ret' = calculate_hash(mine_at)
    /\ mine_pc' = "returned"
    /\ UNCHANGED <<mine_from, mine_at>>

\* block.nonce += 1
MineIncrement ==
    /\ mine_pc = "searching"
    /\ ~mine_found(mine_at)
    /\ mine_at' = [mine_at EXCEPT !.nonce = @ + 1]
    /\ UNCHANGED <<mine_from, mine_pc, mine_ret>>

MineNext ==
    \/ MineReturn /\ UNCHANGED <<vars, engine_vars, rule_vars, genesis_vars>>
    \/ MineIncrement /\ UNCHANGED <<vars, engine_vars, rule_vars, genesis_vars>>

SpecMine == MineInit /\ [][MineNext]_all_vars

(***************************************************************************)
(* mine_block over the whole range of the nonce                            *)
(*                                                                         *)
(* Block::nonce is a u64 and mine_block is public: it can be handed a      *)
(* block whose nonce is near u64::MAX.  MaxNonce stands for u64::MAX.      *)
(* `block.nonce += 1` at u64::MAX panics in a build with overflow checks   *)
(* and wraps to 0 in a build without them.  A digest is known by its first *)
(* two characters here, so a difficulty of MaxDifficulty + 1 is a target   *)
(* longer than the digest: starts_with is false for every nonce.           *)
(***************************************************************************)
MaxNonce == 15

WideInputs ==
    { Block(2, t, ZeroSentinel, EmptyString, data, nonce, difficulty) :
        t \in Times, data \in MinePayloads,
        nonce \in {0, MaxNonce - 1, MaxNonce}, difficulty \in 0..(MaxDifficulty + 1) }

WideInit ==
    /\ Init
    /\ EngineIdle
    /\ RulesIdle
    /\ GenesisIdle
    /\ mine_from \in WideInputs
    /\ mine_at = mine_from
    /\ mine_pc = "searching"
    /\ mine_ret = EmptyString

\* block.nonce += 1 below u64::MAX
MineIncrementBelowMax ==
    /\ mine_at.nonce < MaxNonce
    /\ MineIncrement

\* block.nonce += 1 at u64::MAX with overflow checks: panic
MineOverflowPanic ==
    /\ mine_pc = "searching"
    /\ ~mine_found(mine_at)
    /\ mine_at.nonce = MaxNonce
    /\ mine_pc' = "panicked"
    /\ UNCHANGED <<mine_from, mine_at, mine_ret>>

\* block.nonce += 1 at u64::MAX without overflow checks: the nonce wraps
MineOverflowWrap ==
    /\ mine_pc = "searching"
    /\ ~mine_found(mine_at)
    /\ mine_at.nonce = MaxNonce
    /\ mine_at' = [mine_at EXCEPT !.nonce = 0]
    /\ UNCHANGED <<mine_from, mine_pc, mine_ret>>

WideNext ==
    \/ MineReturn /\ UNCHANGED <<vars, engine_vars, rule_vars, genesis_vars>>
    \/ MineIncrementBelowMax /\ UNCHANGED <<vars, engine_vars, rule_vars, genesis_vars>>
    \/ MineOverflowPanic /\ UNCHANGED <<vars, engine_vars, rule_vars, genesis_vars>>
    \/ MineOverflowWrap /\ UNCHANGED <<vars, engine_vars, rule_vars, genesis_vars>>

SpecMineWide == WideInit /\ [][WideNext]_all_vars

\* the loop keeps running: no step of it is put off forever
SpecMineWideFair == SpecMineWide /\ WF_all_vars(WideNext)

(***************************************************************************)
(* f32 arithmetic: a positive value is m / 2^e with 2^23 <= m < 2^24       *)
(***************************************************************************)
Pow2(n) == 2 ^ n

RECURSIVE f32_exponent(_, _, _)
f32_exponent(p, q, e) ==
    IF p * Pow2(e) >= q * Pow2(23) THEN e ELSE f32_exponent(p, q, e + 1)

\* the f32 nearest to p / q (ties to even), for 0 <= p / q < 2^24 and q <= 100: what a
\* literal such as 0.67 denotes, and what the f32 division p as f32 / q as f32 returns
f32(p, q) ==
    IF p = 0 THEN [m |-> 0, e |-> 0]
    ELSE LET e  == f32_exponent(p, q, 0)
             n  == p * Pow2(e)
             m0 == n \div q
             r  == n % q
             m  == IF 2 * r > q \/ (2 * r = q /\ m0 % 2 = 1) THEN m0 + 1 ELSE m0
         IN  IF m = Pow2(24) THEN [m |-> Pow2(23), e |-> e - 1] ELSE [m |-> m, e |-> e]

\* a >= b on f32 values
f32_ge(a, b) ==
    IF b.m = 0 THEN TRUE
    ELSE IF a.m = 0 THEN FALSE
    ELSE IF a.e = b.e THEN a.m >= b.m
    ELSE a.e < b.e

(***************************************************************************)
(* ConstitutionalEngine: proposals and votes                               *)
(*                                                                         *)
(* Fields no operation reads (proposal_type, description, proposer,        *)
(* created_at, implementation_details; a vote's timestamp, rationale and   *)
(* weight; an event's id, description, timestamp and actor) are left out.  *)
(* A threshold <<p, q>> is the f32 written as the decimal p / q.           *)
(***************************************************************************)
\* the clock (Utc::now()) ranges over 0..MaxNow
MaxNow == 2

\* events the constitutional history can hold
MaxHistory == 7

\* successful submit_proposal calls
MaxSubmits == 2

\* proposals the engine stores at a time
MaxProposals == 1

\* let eligible_voters = 10.0
eligible_voters == 10

Voters == {"v1", "v2", "v3", "v4", "v5"}
VoteTypes == {"For", "Against", "Abstain"}

Vote(voter, vote_type) == [voter |-> voter, vote_type |-> vote_type]

\* the votes cast: every voter can vote For, the first can also vote Against or
\* abstain (and so change a vote)
Votes ==
    { Vote(voter, "For") : voter \in Voters }
        \cup { Vote("v1", vote_type) : vote_type \in VoteTypes }

\* <<voting_deadline, required_quorum, required_majority, status>> of the proposals
\* submitted under a caller's id
Submissions ==
    { << 1, <<1, 2>>, <<67, 100>>, "Draft" >>,
      << MaxNow, <<1, 2>>, <<4, 5>>, "Draft" >>,
      << MaxNow, <<1, 5>>, <<67, 100>>, "Approved" >> }

Proposal(id, title, voting_deadline, required_quorum, required_majority, votes, status) ==
    [id |-> id, title |-> title, voting_deadline |-> voting_deadline,
     required_quorum |-> required_quorum, required_majority |-> required_majority,
     votes |-> votes, status |-> status]

\* the proposals callers submit: votes: HashMap::new()
Proposals ==
    { Proposal("p1", "Test Proposal", sub[1], sub[2], sub[3], <<>>, sub[4]) :
        sub \in Submissions }
        \cup { Proposal("", "Test Proposal", MaxNow, <<1, 5>>, <<1, 2>>, <<>>, "Draft"),
               Proposal("p1", "Test Proposal", 0, <<1, 2>>, <<67, 100>>, <<>>, "Draft"),
               Proposal("p1", "", MaxNow, <<1, 2>>, <<67, 100>>, <<>>, "Draft") }

\* format!("prop_{}", Utc::now().timestamp())
GeneratedId(t) == "prop_" \o ToString(t)

ConstitutionalEvent(event_type, proposal_id) ==
    [event_type |-> event_type, proposal_id |-> proposal_id]

\* HashMap::insert
Insert(map, key, value) ==
    [k \in DOMAIN map \cup {key} |-> IF k = key THEN value ELSE map[k]]

EngineInit ==
    /\ Init
    /\ MineIdle
    /\ EngineIdle
    /\ RulesIdle
    /\ GenesisIdle

\* time passes
TickSweeping ==
    /\ now < MaxNow
    /\ now' = now + 1
    /\ engine_last' = [op |-> "tick", proposal_id |-> "", vote |-> <<>>, proposal |-> <<>>,
                       result |-> "Ok"]
    /\ active_proposals' =
          [ id \in DOMAIN active_proposals |->
              IF /\ active_proposals[id].status = "VotingActive"
                 /\ now' > active_proposals[id].voting_deadline
              THEN [active_proposals[id] EXCEPT !.status = "QuorumNotMet"]
              ELSE active_proposals[id] ]
    /\ UNCHANGED <<voting_records, constitutional_history, submitted_votes>>

Tick ==
    /\ now < MaxNow
    /\ now' = now + 1
    /\ engine_last' = EngineCall("tick", "", NoVote, NoProposal, Ok)
    /\ UNCHANGED <<active_proposals, voting_records, constitutional_history, submitted_votes>>

submit_proposal_result_deadline_now(proposal, t) ==
    IF proposal.title = "" THEN "Proposal title cannot be empty"
    ELSE IF proposal.voting_deadline < t THEN "Voting deadline must be in the future"
    ELSE Ok

\* the Result of submit_proposal at clock reading t
submit_proposal_result(proposal, t) ==
    IF proposal.title = "" THEN "Proposal title cannot be empty"
    ELSE IF proposal.voting_deadline <= t THEN "Voting deadline must be in the future"
    ELSE Ok

submitted_status_kept(proposal, t) ==
    [proposal EXCEPT !.id = IF @ = "" THEN GeneratedId(t) ELSE @]

\* the proposal as submit_proposal stores it
submitted(proposal, t) ==
    [proposal EXCEPT !.id = IF @ = "" THEN GeneratedId(t) ELSE @,
                     !.status = "VotingActive"]

\* the ProposalSubmitted events of a history
Submits(history) ==
    Cardinality({ i \in DOMAIN history : history[i].event_type = "ProposalSubmitted" })

SubmitProposalFrom(proposals, max_proposals) ==
    \E proposal \in proposals :
        IF submit_proposal_result(proposal, now) # Ok
        THEN /\ engine_last' = EngineCall("submit_proposal", "", NoVote, NoProposal,
                                          submit_proposal_result(proposal, now))
             /\ UNCHANGED <<active_proposals, voting_records, constitutional_history, now,
                            submitted_votes>>
        ELSE /\ Len(constitutional_history) < MaxHistory
             /\ Submits(constitutional_history) < MaxSubmits
             /\ Cardinality(DOMAIN active_proposals \cup {submitted(proposal, now).id})
                    <= max_proposals
             /\ constitutional_history' =
                   Append(constitutional_history,
                          ConstitutionalEvent("ProposalSubmitted", submitted(proposal, now).id))
             /\ active_proposals' =
                   Insert(active_proposals, submitted(proposal, now).id, submitted(proposal, now))
             /\ engine_last' = EngineCall("submit_proposal", submitted(proposal, now).id,
                                          NoVote, proposal, Ok)
             /\ submitted_votes' =
                   Insert(submitted_votes, submitted(proposal, now).id, proposal.votes)
             /\ UNCHANGED <<voting_records, now>>

SubmitProposal == SubmitProposalFrom(Proposals, MaxProposals)

CountVotes_weight_one(votes, vote_type) ==
    Cardinality({ voter \in DOMAIN votes :
                    votes[voter].vote_type = vote_type /\ votes[voter].weight = 1 })

\* proposal.votes.values().filter(|v| matches!(v.vote_type, ..)).count()
CountVotes(votes, vote_type) ==
    Cardinality({ voter \in DOMAIN votes : votes[voter].vote_type = vote_type })

record_vote_keyed_by_choice(proposal, vote) ==
    [proposal EXCEPT !.votes = Insert(@, vote.voter \o vote.vote_type, vote)]

\* proposal.votes.insert(vote.voter.clone(), vote.clone())
record_vote(proposal, vote) ==
    [proposal EXCEPT !.votes = Insert(@, vote.voter, vote)]

\* let participation_rate = total_votes / eligible_voters
participation_rate(proposal) ==
    f32(Cardinality(DOMAIN proposal.votes), eligible_voters)

\* let approval_rate = votes_for / total_votes, read only when votes were cast
approval_rate(proposal) ==
    f32(CountVotes(proposal.votes, "For"), Cardinality(DOMAIN proposal.votes))

f32_literal(pair) == f32(pair[1], pair[2])

quorum_met_above_only(proposal) ==
    ~f32_ge(f32_literal(proposal.required_quorum), participation_rate(proposal))

\* participation_rate >= proposal.required_quorum
quorum_met(proposal) ==
    f32_ge(participation_rate(proposal), f32_literal(proposal.required_quorum))

majority_met_above_only(proposal) ==
    ~f32_ge(f32_literal(proposal.required_majority), approval_rate(proposal))

\* approval_rate >= proposal.required_majority
majority_met(proposal) ==
    f32_ge(approval_rate(proposal), f32_literal(proposal.required_majority))

\* new_status of check_proposal_resolution, at clock reading t
resolution_status(proposal, t) ==
    IF quorum_met(proposal)
    THEN IF majority_met(proposal) THEN Some("Approved") ELSE Some("Rejected")
    ELSE IF t > proposal.voting_deadline THEN Some("QuorumNotMet")
    ELSE None

\* the VotingRecord check_proposal_resolution writes
voting_record(proposal_id, proposal, status) ==
    LET total_votes == Cardinality(DOMAIN proposal.votes)
        votes_for == CountVotes(proposal.votes, "For")
        votes_against == CountVotes(proposal.votes, "Against")
    IN  [proposal_id |-> proposal_id,
         total_eligible_voters |-> eligible_voters,
         total_votes_cast |-> total_votes,
         votes_for |-> votes_for,
         votes_against |-> votes_against,
         votes_abstain |-> total_votes - votes_for - votes_against,
         final_result |-> CASE status = "Approved" -> "Passed"
                            [] status = "Rejected" -> "Failed"
                            [] status = "QuorumNotMet" -> "QuorumNotMet"
                            [] OTHER -> "Failed",
         participation_rate |-> participation_rate(proposal)]

check_proposal_resolution_history_reset(proposals, records, history, proposal_id, t) ==
    LET new_status == resolution_status(proposals[proposal_id], t)
    IN  IF new_status = None THEN <<proposals, records, history>>
        ELSE << [proposals EXCEPT ![proposal_id].status = new_status[1]],
                Insert(records, proposal_id,
                       voting_record(proposal_id, proposals[proposal_id], new_status[1])),
                << ConstitutionalEvent("ProposalResolved", proposal_id) >> >>

\* check_proposal_resolution(proposal_id) at clock reading t, on the engine state
\* <<proposals, records, history>>: the engine state it leaves
check_proposal_resolution(proposals, records, history, proposal_id, t) ==
    LET new_status == resolution_status(proposals[proposal_id], t)
    IN  IF new_status = None THEN <<proposals, records, history>>
        ELSE << [proposals EXCEPT ![proposal_id].status = new_status[1]],
                Insert(records, proposal_id,
                       voting_record(proposal_id, proposals[proposal_id], new_status[1])),
                Append(history, ConstitutionalEvent("ProposalResolved", proposal_id)) >>

cast_vote_result_any_status(proposals, proposal_id, t) ==
    IF proposal_id \notin DOMAIN proposals THEN "Proposal not found"
    ELSE IF t > proposals[proposal_id].voting_deadline THEN "Voting deadline has passed"
    ELSE Ok

cast_vote_result_late_deadline(proposals, proposal_id, t) ==
    IF proposal_id \notin DOMAIN proposals THEN "Proposal not found"
    ELSE IF proposals[proposal_id].status # "VotingActive"
    THEN "Proposal is not accepting votes"
    ELSE IF t > proposals[proposal_id].voting_deadline + 1
    THEN "Voting deadline has passed"
    ELSE Ok

\* the Result of cast_vote at clock reading t
cast_vote_result(proposals, proposal_id, t) ==
    IF proposal_id \notin DOMAIN proposals THEN "Proposal not found"
    ELSE IF proposals[proposal_id].status # "VotingActive"
    THEN "Proposal is not accepting votes"
    ELSE IF t > proposals[proposal_id].voting_deadline THEN "Voting deadline has passed"
    ELSE Ok

cast_vote_recorded_event_last(proposals, records, history, proposal_id, vote, t) ==
    LET after == check_proposal_resolution(
                     [proposals EXCEPT ![proposal_id] = record_vote(@, vote)],
                     records, history, proposal_id, t)
    IN  << after[1], after[2],
           Append(after[3], ConstitutionalEvent("VoteCast", proposal_id)) >>

\* what cast_vote does once the vote is accepted: the vote is stored, the VoteCast event
\* pushed, and check_proposal_resolution run at clock reading t
cast_vote_recorded(proposals, records, history, proposal_id, vote, t) ==
    check_proposal_resolution(
        [proposals EXCEPT ![proposal_id] = record_vote(@, vote)],
        records,
        Append(history, ConstitutionalEvent("VoteCast", proposal_id)),
        proposal_id, t)

\* the proposal ids cast_vote is called with: stored ones and one that never is
CastIds == DOMAIN active_proposals \cup {"p1", "p9"}

\* cast_vote(proposal_id, vote). The deadline is read against the clock twice, on
\* entry and in check_proposal_resolution; time may pass in between.
CastVoteWith(ids, votes) ==
    \E proposal_id \in ids, vote \in votes :
        LET result == cast_vote_result(active_proposals, proposal_id, now)
        IN  IF result = Ok
            THEN /\ Len(constitutional_history) + 2 <= MaxHistory
                 /\ \E t \in now..MaxNow :
                       /\ LET after == cast_vote_recorded(active_proposals, voting_records,
                                                          constitutional_history,
                                                          proposal_id, vote, t)
                          IN  /\ active_proposals' = after[1]
                              /\ voting_records' = after[2]
                              /\ constitutional_history' = after[3]
                       /\ now' = t
                       /\ UNCHANGED submitted_votes
                       /\ engine_last' = EngineCall("cast_vote", proposal_id, vote,
                                                    NoProposal, Ok)
            ELSE /\ active_proposals' =
                       IF result = "Voting deadline has passed"
                       THEN [active_proposals EXCEPT ![proposal_id].status = "QuorumNotMet"]
                       ELSE active_proposals
                 /\ engine_last' = EngineCall("cast_vote", proposal_id, NoVote, NoProposal,
                                              result)
                 /\ UNCHANGED <<voting_records, constitutional_history, now, submitted_votes>>

CastVote == CastVoteWith(CastIds, Votes)

EngineNext ==
    \/ Tick /\ UNCHANGED <<vars, mine_vars, rule_vars, genesis_vars>>
    \/ SubmitProposal /\ UNCHANGED <<vars, mine_vars, rule_vars, genesis_vars>>
    \/ CastVote /\ UNCHANGED <<vars, mine_vars, rule_vars, genesis_vars>>

\* the engine alone
SpecEngine == EngineInit /\ [][EngineNext]_all_vars

(***************************************************************************)
(* ConstitutionalEngine: validate_transaction and get_stats                *)
(*                                                                         *)
(* `rules` is a public field that new() fills with the foundational rules  *)
(* and no operation of the engine writes.  validate_transaction is a pure  *)
(* function of the rules and the transaction, so its specification draws   *)
(* the rules from RuleSets: the foundational rules with every pattern of   *)
(* active flags, and lists in which more than one rule blocks or warns.    *)
(* A payload is "null" (serde_json::Value::Null), "{}" (an object without  *)
(* members) or "object".                                                   *)
(***************************************************************************)
ARTIFACT_VIRTUAL == "Artifact Virtual"

NoViolation == [kind |-> "None", msg |-> ""]
Warning(msg) == [kind |-> "Warning", msg |-> msg]
Blocking(msg) == [kind |-> "Blocking", msg |-> msg]

Approved == [result |-> "Approved", messages |-> <<>>]
ApprovedWithWarnings(warnings) == [result |-> "ApprovedWithWarnings", messages |-> warnings]
Rejected(violations) == [result |-> "Rejected", messages |-> violations]

requires_artifact_virtual_approval(transaction) ==
    transaction.transaction_type \in {"ConstitutionalAmendment", "EmergencyAction"}

requires_democratic_vote_two_kinds(transaction) ==
    transaction.transaction_type \in {"GovernanceProposal", "ResourceAllocation"}

requires_democratic_vote(transaction) ==
    transaction.transaction_type \in
        {"GovernanceProposal", "ResourceAllocation", "AIModelUpdate"}

apply_rule(rule, transaction) ==
    CASE rule.rule_type = "AuthorizationRule" ->
            IF /\ rule.id = "artifact_virtual_supremacy"
               /\ requires_artifact_virtual_approval(transaction)
               /\ transaction.sender # ARTIFACT_VIRTUAL
            THEN Blocking("Action requires Artifact Virtual approval")
            ELSE NoViolation
      [] rule.rule_type = "VotingRule" ->
            IF /\ rule.id = "democratic_voting"
               /\ requires_democratic_vote(transaction)
               /\ ~transaction.constitutional_validation
            THEN Blocking("Action requires democratic voting process")
            ELSE NoViolation
      [] rule.rule_type = "OperationalRule" ->
            IF /\ rule.id = "transparency_requirement"
               /\ transaction.data = "null"
            THEN Warning("Transaction lacks detailed documentation")
            ELSE NoViolation
      [] OTHER -> NoViolation

\* the loop of validate_transaction over the rules still to visit
RECURSIVE validate_loop_first_violation(_, _, _, _)
validate_loop_first_violation(rest, transaction, violations, warnings) ==
    IF rest = <<>> THEN
        IF violations # <<>> THEN Rejected(violations)
        ELSE IF warnings # <<>> THEN ApprovedWithWarnings(warnings)
        ELSE Approved
    ELSE IF ~Head(rest).active THEN
        validate_loop_first_violation(Tail(rest), transaction, violations, warnings)
    ELSE
        LET validation == apply_rule(Head(rest), transaction) IN
        CASE validation.kind = "None" ->
                validate_loop_first_violation(Tail(rest), transaction, violations, warnings)
          [] validation.kind = "Warning" ->
                validate_loop_first_violation(Tail(rest), transaction, violations,
                                              Append(warnings, validation.msg))
          [] validation.kind = "Blocking" ->
                Rejected(Append(violations, validation.msg))

RECURSIVE validate_loop(_, _, _, _)
validate_loop(rest, transaction, violations, warnings) ==
    IF rest = <<>> THEN
        IF violations # <<>> THEN Rejected(violations)
        ELSE IF warnings # <<>> THEN ApprovedWithWarnings(warnings)
        ELSE Approved
    ELSE IF ~Head(rest).active THEN
        validate_loop(Tail(rest), transaction, violations, warnings)
    ELSE
        LET validation == apply_rule(Head(rest), transaction) IN
        CASE validation.kind = "None" ->
                validate_loop(Tail(rest), transaction, violations, warnings)
          [] validation.kind = "Warning" ->
                validate_loop(Tail(rest), transaction, violations,
                              Append(warnings, validation.msg))
          [] validation.kind = "Blocking" ->
                validate_loop(Tail(rest), transaction,
                              Append(violations, validation.msg), warnings)

\* ConstitutionalEngine::validate_transaction
engine_validate_transaction(engine_rules, transaction) ==
    validate_loop(engine_rules, transaction, <<>>, <<>>)

EngineStats(total_rules, active_rules, proposals, total_voting_records, events) ==
    [result |-> "EngineStats", total_rules |-> total_rules, active_rules |-> active_rules,
     active_proposals |-> proposals, total_voting_records |-> total_voting_records,
     constitutional_events |-> events]

get_stats(engine_rules, proposals, records, history) ==
    EngineStats(Len(engine_rules),
                Cardinality({ i \in 1..Len(engine_rules) : engine_rules[i].active }),
                Cardinality(DOMAIN proposals),
                Cardinality(DOMAIN records),
                Len(history))

RuleKinds ==
    {"ConstitutionalAmendment", "EmergencyAction", "GovernanceProposal",
     "ResourceAllocation", "AIModelUpdate", "EntityRegistration"}
RuleSenders == {ARTIFACT_VIRTUAL, ROOT, AVA}
Payloads == {"null", "{}", "object"}

\* the transactions validate_transaction is asked about
RuleTransactions ==
    { Transaction("tx1", kind, sender, data, cv) :
        kind \in RuleKinds, sender \in RuleSenders, data \in Payloads, cv \in BOOLEAN }

\* the supremacy rule under the rule type its handler in apply_rule is written for
supremacy_as_authorization ==
    GovernanceRule("artifact_virtual_supremacy", "AuthorizationRule", "Constitutional", TRUE)

with_active(rule_list, flags) ==
    [ i \in 1..Len(rule_list) |-> [rule_list[i] EXCEPT !.active = flags[i]] ]

RuleSets ==
    { with_active(foundational_rules, flags) : flags \in [1..4 -> BOOLEAN] }
    \cup { with_active(<<supremacy_as_authorization, foundational_rules[3],
                         foundational_rules[4]>>, flags) : flags \in [1..3 -> BOOLEAN] }
    \cup { << foundational_rules[3], foundational_rules[4], supremacy_as_authorization,
              foundational_rules[3], foundational_rules[4] >> }

\* the engine holds one of the rule sets and nothing else has happened
RulesInit ==
    /\ Init
    /\ EngineIdle
    /\ MineIdle
    /\ GenesisIdle
    /\ rules \in RuleSets
    /\ query_last = Query("new", NoQueryTransaction, "Ok")

\* validate_transaction(&self, transaction): the call and what it returned are recorded,
\* no field of the engine is written
ValidateFrom(transactions) ==
    \E transaction \in transactions :
        /\ query_last' = Query("validate_transaction", transaction,
                               engine_validate_transaction(rules, transaction))
        /\ engine_last' = EngineCall("validate_transaction", "", NoVote, NoProposal, Ok)
        /\ UNCHANGED <<rules, active_proposals, voting_records, constitutional_history, now,
                 submitted_votes>>

ValidateTransaction == ValidateFrom(RuleTransactions)

\* get_stats(&self)
GetStats ==
    /\ query_last' = Query("get_stats", NoQueryTransaction,
                           get_stats(rules, active_proposals, voting_records,
                                     constitutional_history))
    /\ engine_last' = EngineCall("get_stats", "", NoVote, NoProposal, Ok)
    /\ UNCHANGED <<rules, active_proposals, voting_records, constitutional_history, now,
                 submitted_votes>>

RulesNext ==
    \/ ValidateTransaction /\ UNCHANGED <<vars, mine_vars, genesis_vars>>
    \/ GetStats /\ UNCHANGED <<vars, mine_vars, genesis_vars>>

SpecRules == RulesInit /\ [][RulesNext]_all_vars

(***************************************************************************)
(* ConstitutionalEngine: every operation, on two proposals                 *)
(*                                                                         *)
(* "p1" closes at 1 and "p2" at MaxNow; two votes meet the quorum of 0.2.  *)
(***************************************************************************)
GovernanceProposals ==
    { Proposal("p1", "Test Proposal", 1, <<1, 5>>, <<1, 2>>, <<>>, "Draft"),
      Proposal("p2", "Test Proposal", MaxNow, <<1, 5>>, <<1, 2>>, <<>>, "Draft"),
      Proposal("p2", "", MaxNow, <<1, 5>>, <<1, 2>>, <<>>, "Draft") }

GovernanceIds == {"p1", "p2"}

GovernanceVotes == { Vote("v1", "For"), Vote("v2", "Against") }

GovernanceTransactions == { Transaction("tx1", "GovernanceProposal", AVA, "null", FALSE) }

GovernanceInit ==
    /\ Init
    /\ MineIdle
    /\ EngineIdle
    /\ RulesIdle
    /\ GenesisIdle

GovernanceNext ==
    \/ Tick /\ UNCHANGED <<vars, mine_vars, rule_vars, genesis_vars>>
    \/ SubmitProposalFrom(GovernanceProposals, MaxProposals + 1)
          /\ UNCHANGED <<vars, mine_vars, rule_vars, genesis_vars>>
    \/ CastVoteWith(GovernanceIds, GovernanceVotes)
          /\ UNCHANGED <<vars, mine_vars, rule_vars, genesis_vars>>
    \/ ValidateFrom(GovernanceTransactions) /\ UNCHANGED <<vars, mine_vars, genesis_vars>>
    \/ GetStats /\ UNCHANGED <<vars, mine_vars, genesis_vars>>

SpecGovernance == GovernanceInit /\ [][GovernanceNext]_all_vars

(***************************************************************************)
(* GenesisBuilder (genesis.rs)                                             *)
(*                                                                         *)
(* The builder holds a GenesisConfig.  Of an EntityConfig the name, the    *)
(* maintainers and the constitutional constraints are kept; description,   *)
(* capabilities and vision statement are copied into the payload and read  *)
(* by nothing.  The blocks build_dual_genesis returns are sealed and       *)
(* appended the way the ledger seals every block: hash = mine_block(block) *)
(* and chain.push(block).                                                  *)
(***************************************************************************)
\* "0000000000000000000000000000000000000000000000000000000000000000"
AllZeroHash == [hex |-> <<0, 0>>, pre |-> <<>>]

build_artifact_virtual_genesis(config) ==
    Block(0, config.genesis_timestamp, AllZeroHash, EmptyString,
          BlockData(<< Transaction("genesis_artifact_virtual_0", "GenesisCreation",
                                   "SYSTEM_GENESIS", "metadata", TRUE) >>,
                    Some(EntityMetadata(config.artifact_virtual_config.name, None,
                             config.artifact_virtual_config.constitutional_constraints)),
                    <<"GenesisReferenceRequired", "ArtifactVirtualIntelligenceApproval",
                      "ConstitutionalAmendment">>),
          0, config.initial_difficulty)

build_ava_genesis(config, artifact_virtual_hash) ==
    Block(1, config.genesis_timestamp, artifact_virtual_hash, EmptyString,
          BlockData(<< Transaction("genesis_ava_1", "GenesisCreation", ARTIFACT_VIRTUAL,
                                   "metadata", TRUE) >>,
                    Some(EntityMetadata(config.ava_config.name, Some(ARTIFACT_VIRTUAL),
                                        config.ava_config.constitutional_constraints)),
                    <<"ArtifactVirtualIntelligenceApproval", "VotingQuorum",
                      "ConsensusRequired">>),
          0, config.initial_difficulty)

\* the number of characters of format!("{:x}", hasher.finalize()) for SHA-256
DigestLength == 64

\* hash.len(): a digest has DigestLength characters, the constants are what they spell
hex_len(hash) ==
    IF hash = EmptyString THEN 0
    ELSE IF hash = ZeroSentinel THEN 1
    ELSE DigestLength

\* the string that format!("{}{}{}{}{}", ...) builds: the five fields, without the nonce
TemporaryPreimage(block) ==
    <<block.index, block.timestamp, block.previous_hash, block.data, block.difficulty>>

\* the first two characters of the digest of that string
TemporaryPrefix(block) ==
    LET a == 7 * block.index + 13 * block.timestamp + 3 * HexValue(block.previous_hash.hex)
             + 5 * DataCode(block.data) + 17 * block.difficulty + 2
    IN  << a % HexBase, (a \div 3) % HexBase >>

calculate_temporary_hash(block) ==
    [hex |-> TemporaryPrefix(block), pre |-> TemporaryPreimage(block)]

build_dual_genesis(config) ==
    LET artifact_virtual_block == build_artifact_virtual_genesis(config)
        av_hash == calculate_temporary_hash(artifact_virtual_block)
    IN  << artifact_virtual_block, build_ava_genesis(config, av_hash) >>

validate_config_any_difficulty(config) ==
    IF config.artifact_virtual_config.name = ""
    THEN "Artifact Virtual name cannot be empty"
    ELSE IF config.artifact_virtual_config.maintainers = <<>>
    THEN "Artifact Virtual must have at least one maintainer"
    ELSE IF config.ava_config.name = ""
    THEN "AVA name cannot be empty"
    ELSE IF config.ava_config.maintainers = <<>>
    THEN "AVA must have at least one maintainer"
    ELSE Ok

validate_config(config) ==
    IF config.artifact_virtual_config.name = ""
    THEN "Artifact Virtual name cannot be empty"
    ELSE IF config.artifact_virtual_config.maintainers = <<>>
    THEN "Artifact Virtual must have at least one maintainer"
    ELSE IF config.ava_config.name = ""
    THEN "AVA name cannot be empty"
    ELSE IF config.ava_config.maintainers = <<>>
    THEN "AVA must have at least one maintainer"
    ELSE IF config.initial_difficulty = 0
    THEN "Initial difficulty must be greater than 0"
    ELSE Ok

\* the configurations with_config is given: each validated field right or wrong
GenesisConfigs ==
    { GenesisConfig(
          [default_genesis_config.artifact_virtual_config
              EXCEPT !.name = av_name, !.maintainers = av_maintainers],
          [default_genesis_config.ava_config
              EXCEPT !.name = ava_name, !.maintainers = ava_maintainers],
          difficulty, t) :
        av_name \in {"", ARTIFACT_VIRTUAL, "Custom Organization"},
        av_maintainers \in {<<>>, default_genesis_config.artifact_virtual_config.maintainers},
        ava_name \in {"", AVA},
        ava_maintainers \in {<<>>, default_genesis_config.ava_config.maintainers},
        difficulty \in 0..MaxDifficulty,
        t \in Times }

GenesisCall(op, result) == [op |-> op, result |-> result]

\* GenesisBuilder::with_config(config), next to an empty ledger
GenesisInit ==
    /\ Init
    /\ EngineIdle
    /\ MineIdle
    /\ RulesIdle
    /\ genesis_config \in GenesisConfigs
    /\ genesis_built = <<>>
    /\ genesis_last = GenesisCall("with_config", Ok)

ValidateConfig ==
    /\ genesis_last' = GenesisCall("validate_config", validate_config(genesis_config))
    /\ UNCHANGED <<genesis_config, genesis_built, vars>>

BuildDualGenesis ==
    /\ genesis_built' = build_dual_genesis(genesis_config)
    /\ genesis_last' = GenesisCall("build_dual_genesis", Ok)
    /\ UNCHANGED <<genesis_config, vars>>

\* the next block of the pair is sealed and appended to the chain
SealBuilt ==
    /\ genesis_built # <<>>
    /\ Len(chain) < Len(genesis_built)
    /\ chain' = Append(chain, sealed_block(genesis_built[Len(chain) + 1]))
    /\ genesis_last' = GenesisCall("mine_block", Ok)
    /\ UNCHANGED <<pending_transactions, entities, genesis_created, last, genesis_config,
                   genesis_built>>

GenesisNext ==
    \/ ValidateConfig /\ UNCHANGED <<engine_vars, mine_vars, rule_vars>>
    \/ BuildDualGenesis /\ UNCHANGED <<engine_vars, mine_vars, rule_vars>>
    \/ SealBuilt /\ UNCHANGED <<engine_vars, mine_vars, rule_vars>>

SpecGenesis == GenesisInit /\ [][GenesisNext]_all_vars

(***************************************************************************)
(* Properties of the ledger                                                *)
(***************************************************************************)
IsPrefix(s, t) == Len(s) <= Len(t) /\ SubSeq(t, 1, Len(s)) = s

Sealed(block) ==
    /\ block.hash # EmptyString
    /\ block.hash = calculate_hash(block)
    /\ starts_with(block.hash, Zeros(block.difficulty))

\* C1: after a successful create_dual_genesis, whatever add_transaction and create_block
\* calls follow and whether they succeed or fail, is_chain_valid() returns true.
C1_ChainValidAfterGenesis == genesis_created => is_chain_valid(chain)

\* C1 witness: a block was created after genesis and a later call failed.
C1_Witness ==
    /\ genesis_created
    /\ Len(chain) >= 3
    /\ last.result # Ok
    /\ is_chain_valid(chain)

\* payloads a stored block can be overwritten with
TamperPayloads ==
    { BlockData(txs, None, <<>>) : txs \in {<<>>} \cup { <<tx>> : tx \in Transactions } }

\* the chain with the payload of the block at position i replaced, its hash left alone
Tampered(c, i, data) == [c EXCEPT ![i].data = data]

\* C2: changing the payload of any one stored block, block 0 and the last block
\* included, while its stored hash stays, makes is_chain_valid() return false.
C2_TamperAnyBlockDetected ==
    \A i \in 1..Len(chain) : \A data \in TamperPayloads :
        data # chain[i].data => ~is_chain_valid(Tampered(chain, i, data))

\* C2, for the blocks is_chain_valid recomputes (every block but block 0): a changed
\* payload under an unchanged hash is detected.
C2_TamperAfterBlock0Detected ==
    \A i \in 2..Len(chain) : \A data \in TamperPayloads :
        data # chain[i].data => ~is_chain_valid(Tampered(chain, i, data))

\* C3: the chain is append-only: every call leaves the old chain as a prefix of the new
\* one, and every block it appends has had its hash set by sealing.
C3_AppendOnlySealed ==
    [][ /\ IsPrefix(chain, chain')
        /\ \A i \in (Len(chain) + 1)..Len(chain') :
              /\ chain'[i].hash # EmptyString
              /\ starts_with(chain'[i].hash, Zeros(chain'[i].difficulty)) ]_vars

\* C3 witness: create_block has appended to a chain that held the genesis blocks.
C3_Witness ==
    /\ last.op = "create_block"
    /\ last.result = Ok
    /\ Len(chain) >= 3
    /\ chain[Len(chain)].hash # EmptyString

\* C4: every block of the chain, block 0 included, stores the digest recomputed from its
\* index, timestamp, previous_hash, payload, stored nonce and difficulty, and that digest
\* begins with `difficulty` zero characters.
C4_EveryBlockSealed ==
    \A i \in 1..Len(chain) :
        /\ chain[i].hash = calculate_hash(chain[i])
        /\ starts_with(chain[i].hash, Zeros(chain[i].difficulty))

\* C4 witness: a sealed block of difficulty 2 in the chain whose nonce search took steps.
C4_Witness ==
    \E i \in 1..Len(chain) :
        /\ chain[i].difficulty = 2
        /\ chain[i].nonce > 0
        /\ Sealed(chain[i])

\* C5: create_dual_genesis on a ledger whose flag is false succeeds and leaves exactly two
\* sealed blocks, block 0 with index 0 and the sentinel as previous_hash, block 1 with
\* index 1 linked to block 0's stored hash; both entities are registered by name, AVA has
\* the root as parent, the root has none, and genesis_created is true.
C5_GenesisEffect ==
    [][ (last'.op = "create_dual_genesis" /\ ~genesis_created) =>
          /\ last'.result = Ok
          /\ Len(chain') = 2
          /\ Sealed(chain'[1]) /\ Sealed(chain'[2])
          /\ chain'[1].index = 0 /\ chain'[1].previous_hash = ZeroSentinel
          /\ chain'[2].index = 1 /\ chain'[2].previous_hash = chain'[1].hash
          /\ DOMAIN entities' = {ROOT, AVA}
          /\ entities'[ROOT].name = ROOT /\ entities'[AVA].name = AVA
          /\ entities'[AVA].parent_entity = Some(ROOT)
          /\ entities'[ROOT].parent_entity = None
          /\ genesis_created' ]_vars

\* C5 witness: create_dual_genesis has just succeeded.
C5_Witness ==
    /\ last.op = "create_dual_genesis"
    /\ last.result = Ok
    /\ Len(chain) = 2
    /\ genesis_created

GenesisBlocks(c) == { i \in 1..Len(c) : c[i].data.entity_metadata # None }

\* C6: create_dual_genesis with genesis_created already true returns an error and leaves
\* chain, pending pool, entity mapping and flag unchanged; genesis succeeds only from a
\* ledger whose flag is false, and the chain never holds more than one pair of genesis blocks.
C6_GenesisOnce ==
    [][ /\ (last'.op = "create_dual_genesis" /\ genesis_created) =>
              /\ last'.result = "Genesis blocks already created"
              /\ UNCHANGED <<chain, pending_transactions, entities, genesis_created>>
        /\ (last'.op = "create_dual_genesis" /\ last'.result = Ok) => ~genesis_created
        /\ Cardinality(GenesisBlocks(chain')) <= 2 ]_vars

\* C6 witness: a second create_dual_genesis has been refused on a ledger that has grown.
C6_Witness ==
    /\ last.op = "create_dual_genesis"
    /\ last.result = "Genesis blocks already created"
    /\ Len(chain) >= 3
    /\ Cardinality(GenesisBlocks(chain)) = 2

\* C7: add_transaction before create_dual_genesis has succeeded fails for every
\* transaction, leaves the pending pool empty and the rest of the ledger unchanged.
C7_AddBeforeGenesisFails ==
    [][ (last'.op = "add_transaction" /\ ~genesis_created) =>
          /\ last'.result = "Genesis blocks must be created first"
          /\ pending_transactions' = <<>>
          /\ UNCHANGED <<chain, pending_transactions, entities, genesis_created>> ]_vars

\* C7 witness: add_transaction of a transaction validation would accept was called
\* before genesis.
C7_Witness ==
    /\ last.op = "add_transaction"
    /\ ~genesis_created
    /\ last.tx.id # ""
    /\ last.result # Ok

\* C8: add_transaction never partially enqueues: on an error the pending pool is what it
\* was, on Ok it is the old pool with that one transaction appended at the end; chain,
\* entity mapping and genesis flag are unchanged either way.
C8_AddTransactionFrame ==
    [][ last'.op = "add_transaction" =>
          /\ last'.result = Ok => pending_transactions' = Append(pending_transactions, last'.tx)
          /\ last'.result # Ok => pending_transactions' = pending_transactions
          /\ UNCHANGED <<chain, entities, genesis_created>> ]_vars

\* C8 witness: a rejected add_transaction with a transaction already in the pool.
C8_Witness ==
    /\ last.op = "add_transaction"
    /\ last.result # Ok
    /\ genesis_created
    /\ Len(pending_transactions) = 1

\* C9 as stated: after genesis add_transaction succeeds for every transaction whose
\* sender is not a registered entity, whatever its id, kind, payload and flag.
C9_UnknownSenderAlwaysAccepted ==
    (/\ last.op = "add_transaction"
     /\ genesis_created
     /\ last.tx.sender \notin DOMAIN entities) => last.result = Ok

\* C9 amended: after genesis add_transaction succeeds for every transaction with a
\* non-empty id whose sender is not a registered entity, whatever its kind, payload and
\* flag; with an empty id it fails.
C9_UnknownSenderAcceptedIffIdNonEmpty ==
    (/\ last.op = "add_transaction"
     /\ genesis_created
     /\ last.tx.sender \notin DOMAIN entities) => (last.result = Ok <=> last.tx.id # "")

\* C9 witness: a transaction of an unregistered sender with the flag false was accepted.
C9_Witness ==
    /\ last.op = "add_transaction"
    /\ genesis_created
    /\ last.tx.sender \notin DOMAIN entities
    /\ ~last.tx.constitutional_validation
    /\ last.tx.data = "null"
    /\ last.result = Ok

\* C10: after genesis a transaction with a non-empty id sent by AVA is accepted iff its
\* constitutional_validation flag is true (the root being AVA's registered parent, only
\* the voting-quorum constraint rejects), and one sent by the root is always accepted.
C10_RegisteredSenders ==
    (/\ last.op = "add_transaction"
     /\ genesis_created
     /\ last.tx.id # "") =>
        /\ has_approval_from_parent(AVA, ROOT)
        /\ last.tx.sender = AVA =>
              /\ last.result = Ok <=> last.tx.constitutional_validation
              /\ last.result # Ok => last.result = "Voting quorum not met"
        /\ last.tx.sender = ROOT => last.result = Ok

\* C10 witness: a transaction of AVA with the flag false was rejected.
C10_Witness ==
    /\ last.op = "add_transaction"
    /\ genesis_created
    /\ last.tx.id # ""
    /\ last.tx.sender = AVA
    /\ ~last.tx.constitutional_validation
    /\ last.result = "Voting quorum not met"

\* C11: create_block with a non-empty pending pool appends exactly one block: index one
\* above the last block's, previous_hash the last block's stored hash, transactions the
\* whole pool in pool order, difficulty 2; it returns that block and leaves the pool empty.
C11_CreateBlockEffect ==
    [][ (last'.op = "create_block" /\ pending_transactions # <<>>) =>
          /\ last'.result = Ok
          /\ chain' = Append(chain, last'.block)
          /\ last'.block.index = chain[Len(chain)].index + 1
          /\ last'.block.previous_hash = chain[Len(chain)].hash
          /\ last'.block.data.transactions = pending_transactions
          /\ last'.block.difficulty = 2
          /\ pending_transactions' = <<>> ]_vars

\* C11 witness: create_block has sealed a pool of two different transactions.
C11_Witness ==
    /\ last.op = "create_block"
    /\ last.result = Ok
    /\ Len(last.block.data.transactions) = 2
    /\ last.block.data.transactions[1] # last.block.data.transactions[2]
    /\ pending_transactions = <<>>
    /\ chain[Len(chain)] = last.block

\* C12: create_block and mine_pending_transactions with an empty pending pool return an
\* error and leave chain, pool, entity mapping and flag unchanged; no block after the
\* genesis pair has an empty transaction list.
C12_EmptyPoolRefused ==
    [][ /\ (/\ last'.op \in {"create_block", "mine_pending_transactions"}
            /\ pending_transactions = <<>>) =>
              /\ last'.result # Ok
              /\ UNCHANGED <<chain, pending_transactions, entities, genesis_created>>
        /\ \A i \in 1..Len(chain') :
              chain'[i].index >= 2 => chain'[i].data.transactions # <<>> ]_vars

\* C12 witness: mine_pending_transactions was refused on a ledger that has sealed a block
\* and whose pool is empty again.
C12_Witness ==
    /\ last.op = "mine_pending_transactions"
    /\ last.result = "No pending transactions to mine"
    /\ pending_transactions = <<>>
    /\ Len(chain) >= 3

Voted == active_proposals'[engine_last'.proposal_id]

CastOk == engine_last'.op = "cast_vote" /\ engine_last'.result = Ok

\* C14: the resolution check run after a recorded vote, with participation = votes held
\* / 10: when participation >= required_quorum the proposal becomes Approved if
\* For votes / votes held >= required_majority and Rejected otherwise (abstentions are
\* in the denominator); when participation < required_quorum and the deadline has not
\* passed it stays VotingActive. With quorum 0.5 and majority 0.67 the proposal stays
\* VotingActive after each of the first 4 For votes and is Approved on the 5th.
C14_ResolutionCheck ==
    [][ CastOk =>
          LET cast == Cardinality(DOMAIN Voted.votes)
              for  == CountVotes(Voted.votes, "For")
              q    == Voted.required_quorum
              m    == Voted.required_majority
          IN  /\ cast * q[2] >= eligible_voters * q[1] =>
                    Voted.status = IF for * m[2] >= cast * m[1]
                                   THEN "Approved" ELSE "Rejected"
              /\ (cast * q[2] < eligible_voters * q[1] /\ ~(now' > Voted.voting_deadline))
                    => Voted.status = "VotingActive"
              /\ (q = <<1, 2>> /\ m = <<67, 100>> /\ for = cast) =>
                    /\ (cast <= 4 /\ ~(now' > Voted.voting_deadline))
                          => Voted.status = "VotingActive"
                    /\ cast = 5 => Voted.status = "Approved" ]_engine_vars

\* C14 witness: the fifth For vote on a proposal with quorum 0.5 and majority 0.67
\* has approved it.
C14_Witness ==
    /\ engine_last.op = "cast_vote"
    /\ engine_last.result = Ok
    /\ engine_last.proposal_id \in DOMAIN active_proposals
    /\ LET p == active_proposals[engine_last.proposal_id]
       IN  /\ p.required_quorum = <<1, 2>>
           /\ p.required_majority = <<67, 100>>
           /\ Cardinality(DOMAIN p.votes) = 5
           /\ CountVotes(p.votes, "For") = 5
           /\ p.status = "Approved"

\* the stored proposals with quorum 0.5 and majority 0.8 that hold the votes of five
\* voters, four For and one Against
FourForOneAgainst ==
    { id \in DOMAIN active_proposals :
        /\ active_proposals[id].required_quorum = <<1, 2>>
        /\ active_proposals[id].required_majority = <<4, 5>>
        /\ Cardinality(DOMAIN active_proposals[id].votes) = 5
        /\ CountVotes(active_proposals[id].votes, "For") = 4
        /\ CountVotes(active_proposals[id].votes, "Against") = 1 }

\* C15 as stated: with quorum 0.5 and majority 0.8, a proposal holding 4 For votes and
\* 1 Against vote of 5 voters is Rejected.
C15_FourOfFiveRejected ==
    \A id \in FourForOneAgainst : active_proposals[id].status = "Rejected"

\* C15 as the code has it: with quorum 0.5 and majority 0.8, a proposal holding 4 For
\* votes and 1 Against vote of 5 voters is Approved: its approval 4/5 reaches the
\* required 0.8.
C15_FourOfFiveApproved ==
    \A id \in FourForOneAgainst : active_proposals[id].status = "Approved"

\* C15 witness: such a proposal is stored and has a voting record.
C15_Witness ==
    \E id \in FourForOneAgainst :
        /\ id \in DOMAIN voting_records
        /\ voting_records[id].votes_for = 4
        /\ voting_records[id].votes_against = 1

\* the proposal the last cast_vote named, as stored before the call
Named == active_proposals[engine_last'.proposal_id]

\* the last step is a cast_vote on a stored VotingActive proposal whose deadline has
\* not passed
CastInTime ==
    /\ engine_last'.op = "cast_vote"
    /\ engine_last'.proposal_id \in DOMAIN active_proposals
    /\ Named.status = "VotingActive"
    /\ ~(now > Named.voting_deadline)

\* C16: a cast_vote on a known proposal that is VotingActive and not past its deadline
\* returns Ok, stores the vote under its voter id and appends exactly one VoteCast
\* event; the resolution check runs after that, so when the vote resolves the proposal
\* the VoteCast event comes right before the ProposalResolved event in the history.
C16_VoteThenResolution ==
    [][ CastInTime =>
          LET id == engine_last'.proposal_id
              n  == Len(constitutional_history)
              h  == constitutional_history'
          IN  /\ engine_last'.result = Ok
              /\ Voted.votes = Insert(Named.votes, engine_last'.vote.voter, engine_last'.vote)
              /\ Len(h) >= n + 1
              /\ SubSeq(h, 1, n) = constitutional_history
              /\ h[n + 1] = ConstitutionalEvent("VoteCast", id)
              /\ IF Voted.status = "VotingActive"
                 THEN Len(h) = n + 1
                 ELSE /\ Len(h) = n + 2
                      /\ h[n + 2] = ConstitutionalEvent("ProposalResolved", id) ]_engine_vars

\* C16 witness: a vote has resolved its proposal; the history ends with its VoteCast
\* event followed by the ProposalResolved event.
C16_Witness ==
    /\ engine_last.op = "cast_vote"
    /\ engine_last.result = Ok
    /\ active_proposals[engine_last.proposal_id].status = "Rejected"
    /\ engine_last.vote.voter \in DOMAIN active_proposals[engine_last.proposal_id].votes
    /\ LET n == Len(constitutional_history)
       IN  /\ n >= 3
           /\ constitutional_history[n - 1] =
                 ConstitutionalEvent("VoteCast", engine_last.proposal_id)
           /\ constitutional_history[n] =
                 ConstitutionalEvent("ProposalResolved", engine_last.proposal_id)

\* C17: a cast_vote on a VotingActive proposal whose voting deadline has passed returns
\* an error, sets the proposal's status to QuorumNotMet and leaves its vote map as it
\* was: the vote is not recorded.
C17_VoteAfterDeadline ==
    [][ (/\ engine_last'.op = "cast_vote"
         /\ engine_last'.proposal_id \in DOMAIN active_proposals
         /\ Named.status = "VotingActive"
         /\ now > Named.voting_deadline) =>
            /\ engine_last'.result # Ok
            /\ Voted.status = "QuorumNotMet"
            /\ Voted.votes = Named.votes ]_engine_vars

\* C17 witness: a proposal with 2 votes and quorum 0.5 became QuorumNotMet on a vote
\* attempt after its deadline.
C17_Witness ==
    /\ engine_last.op = "cast_vote"
    /\ engine_last.result = "Voting deadline has passed"
    /\ LET p == active_proposals[engine_last.proposal_id]
       IN  /\ p.status = "QuorumNotMet"
           /\ Cardinality(DOMAIN p.votes) = 2
           /\ p.required_quorum = <<1, 2>>
           /\ now > p.voting_deadline

\* C18: cast_vote on an unknown proposal id, or on a proposal whose status is not
\* VotingActive, returns an error and leaves the engine's state unchanged: no vote is
\* recorded, no status changes, no voting record is written, no event is appended.
C18_RefusedVoteChangesNothing ==
    [][ (/\ engine_last'.op = "cast_vote"
         /\ \/ engine_last'.proposal_id \notin DOMAIN active_proposals
            \/ Named.status # "VotingActive") =>
            /\ engine_last'.result # Ok
            /\ UNCHANGED <<active_proposals, voting_records, constitutional_history>>
      ]_engine_vars

\* C18 witness: a vote on an Approved proposal was refused.
C18_Witness ==
    /\ engine_last.op = "cast_vote"
    /\ engine_last.result = "Proposal is not accepting votes"
    /\ active_proposals[engine_last.proposal_id].status = "Approved"
    /\ engine_last.proposal_id \in DOMAIN voting_records

Resolved == {"Approved", "Rejected", "QuorumNotMet"}

final_result_of(status) ==
    CASE status = "Approved" -> "Passed"
      [] status = "Rejected" -> "Failed"
      [] status = "QuorumNotMet" -> "QuorumNotMet"

\* C19 as stated: whenever a proposal's status changes from VotingActive to Approved,
\* Rejected or QuorumNotMet, the same operation writes a VotingRecord under the proposal
\* id and appends a ProposalResolved event; so every stored proposal with one of these
\* statuses has a VotingRecord whose final_result is Passed, Failed or QuorumNotMet
\* respectively.
C19_EveryResolutionRecorded ==
    [][ /\ \A id \in DOMAIN active_proposals \cap DOMAIN active_proposals' :
              (/\ active_proposals[id].status = "VotingActive"
               /\ active_proposals'[id].status \in Resolved) =>
                  /\ id \in DOMAIN voting_records'
                  /\ voting_records'[id].final_result =
                        final_result_of(active_proposals'[id].status)
                  /\ constitutional_history' =
                        Append(SubSeq(constitutional_history', 1,
                                      Len(constitutional_history') - 1),
                               ConstitutionalEvent("ProposalResolved", id))
                  /\ Len(constitutional_history') > Len(constitutional_history)
        /\ \A id \in DOMAIN active_proposals' :
              active_proposals'[id].status \in Resolved =>
                  /\ id \in DOMAIN voting_records'
                  /\ voting_records'[id].final_result =
                        final_result_of(active_proposals'[id].status) ]_engine_vars

\* C19 for the transitions check_proposal_resolution makes: a vote that is accepted and
\* resolves the proposal writes the VotingRecord and the ProposalResolved event.
C19_ResolutionByVoteRecorded ==
    [][ (CastOk /\ Named.status = "VotingActive" /\ Voted.status \in Resolved) =>
            /\ engine_last'.proposal_id \in DOMAIN voting_records'
            /\ voting_records'[engine_last'.proposal_id].final_result =
                  final_result_of(Voted.status)
            /\ constitutional_history'[Len(constitutional_history')] =
                  ConstitutionalEvent("ProposalResolved", engine_last'.proposal_id)
      ]_engine_vars

\* C19 witness of the divergence: a proposal is QuorumNotMet and has no VotingRecord.
C19_Witness ==
    \E id \in DOMAIN active_proposals :
        /\ active_proposals[id].status = "QuorumNotMet"
        /\ id \notin DOMAIN voting_records

\* the VoteCast events of a history on a proposal
VoteCasts(history, id) ==
    Cardinality({ i \in DOMAIN history :
                    history[i] = ConstitutionalEvent("VoteCast", id) })

\* C20: a second successful cast_vote by a voter on a proposal replaces that voter's
\* earlier vote instead of adding one: a proposal holds at most one vote per voter id,
\* and a VotingRecord's total_votes_cast is the number of voter ids that voted and is
\* votes_for + votes_against + votes_abstain.
C20_OneVotePerVoter ==
    [][ /\ (CastOk /\ engine_last'.vote.voter \in DOMAIN Named.votes) =>
              /\ DOMAIN Voted.votes = DOMAIN Named.votes
              /\ Voted.votes[engine_last'.vote.voter] = engine_last'.vote
              /\ \A v \in DOMAIN Named.votes \ {engine_last'.vote.voter} :
                    Voted.votes[v] = Named.votes[v]
        /\ \A id \in DOMAIN active_proposals' :
              \A v \in DOMAIN active_proposals'[id].votes :
                  active_proposals'[id].votes[v].voter = v
        /\ \A id \in DOMAIN voting_records' :
              /\ voting_records'[id].total_votes_cast =
                    voting_records'[id].votes_for + voting_records'[id].votes_against
                        + voting_records'[id].votes_abstain
              /\ (id \notin DOMAIN voting_records \/ voting_records'[id] # voting_records[id])
                    => voting_records'[id].total_votes_cast =
                          Cardinality({ active_proposals'[id].votes[v].voter :
                                          v \in DOMAIN active_proposals'[id].votes })
      ]_engine_vars

\* C20 witness: a proposal submitted once got three accepted votes from two voters, one
\* of them an abstention, and its VotingRecord counts two votes.
C20_Witness ==
    \E id \in DOMAIN voting_records :
        /\ Submits(constitutional_history) = 1
        /\ VoteCasts(constitutional_history, id) = 3
        /\ voting_records[id].total_votes_cast = 2
        /\ voting_records[id].votes_abstain = 1
        /\ Cardinality(DOMAIN active_proposals[id].votes) = 2

\* C21 as stated: once the proposal stored under an id has left VotingActive, the
\* status stored under that id never becomes VotingActive again and its recorded votes
\* are never discarded.
C21_StatusMonotonic ==
    [][ \A id \in DOMAIN active_proposals :
            active_proposals[id].status \in Resolved =>
                /\ id \in DOMAIN active_proposals'
                /\ active_proposals'[id].status # "VotingActive"
                /\ active_proposals'[id].votes = active_proposals[id].votes ]_engine_vars

\* C21 for every step but a submit_proposal: a resolved proposal keeps its status and
\* its votes.
C21_ResolvedKeptByVotes ==
    [][ engine_last'.op # "submit_proposal" =>
            \A id \in DOMAIN active_proposals :
                active_proposals[id].status \in Resolved =>
                    /\ id \in DOMAIN active_proposals'
                    /\ active_proposals'[id] = active_proposals[id] ]_engine_vars

\* C21 witness of the divergence: a proposal with a voting record is VotingActive again
\* and holds no vote.
C21_Witness ==
    \E id \in DOMAIN voting_records :
        /\ voting_records[id].total_votes_cast > 0
        /\ active_proposals[id].status = "VotingActive"
        /\ active_proposals[id].votes = <<>>

SubmitOk == engine_last'.op = "submit_proposal" /\ engine_last'.result = Ok

\* C22: a submit_proposal with a non-empty title and a deadline strictly in the future
\* succeeds; it stores the proposal with status VotingActive whatever status was
\* passed, appends exactly one ProposalSubmitted event and returns the id the proposal
\* is stored under: the caller's id when non-empty, a generated id otherwise.
C22_SubmitEffect ==
    [][ /\ \A proposal \in Proposals :
              (proposal.title # "" /\ proposal.voting_deadline > now)
                  => submit_proposal_result(proposal, now) = Ok
        /\ SubmitOk =>
              LET passed == engine_last'.proposal
                  id     == engine_last'.proposal_id
              IN  /\ id = IF passed.id # "" THEN passed.id ELSE GeneratedId(now)
                  /\ id # ""
                  /\ active_proposals' =
                        Insert(active_proposals, id,
                               [passed EXCEPT !.id = id, !.status = "VotingActive"])
                  /\ constitutional_history' =
                        Append(constitutional_history,
                               ConstitutionalEvent("ProposalSubmitted", id))
                  /\ UNCHANGED voting_records ]_engine_vars

\* C22 witness: a proposal passed with status Approved is stored VotingActive under the
\* caller's id.
C22_Witness ==
    /\ engine_last.op = "submit_proposal"
    /\ engine_last.result = Ok
    /\ engine_last.proposal.status = "Approved"
    /\ engine_last.proposal_id = "p1"
    /\ active_proposals["p1"].status = "VotingActive"
    /\ constitutional_history[Len(constitutional_history)] =
          ConstitutionalEvent("ProposalSubmitted", "p1")

\* C23: submit_proposal fails when the title is empty or the voting deadline is not
\* strictly later than the current time (a deadline equal to now fails too); a failed
\* submit_proposal stores no proposal and appends no event.
C23_SubmitRefused ==
    [][ /\ \A proposal \in Proposals :
              (proposal.title = "" \/ proposal.voting_deadline <= now)
                  => submit_proposal_result(proposal, now) # Ok
        /\ SubmitOk =>
              /\ engine_last'.proposal.title # ""
              /\ engine_last'.proposal.voting_deadline > now
        /\ (engine_last'.op = "submit_proposal" /\ engine_last'.result # Ok) =>
              UNCHANGED <<active_proposals, voting_records, constitutional_history>>
      ]_engine_vars

\* C23 witness: a submission whose deadline is the current time was refused while a
\* proposal is stored.
C23_Witness ==
    /\ engine_last.op = "submit_proposal"
    /\ engine_last.result = "Voting deadline must be in the future"
    /\ now = 1
    /\ active_proposals # <<>>

(***************************************************************************)
(* Properties of validate_transaction                                      *)
(***************************************************************************)
Validated == query_last.op = "validate_transaction"

\* what each rule of the engine says about the transaction, inactive rules saying nothing
Outcomes(transaction) ==
    [ i \in 1..Len(rules) |->
        IF rules[i].active THEN apply_rule(rules[i], transaction) ELSE NoViolation ]

IsBlocking(outcome) == outcome.kind = "Blocking"
IsWarning(outcome) == outcome.kind = "Warning"

MessagesOf(outcomes) == [ i \in 1..Len(outcomes) |-> outcomes[i].msg ]

HandledRuleTypes == {"AuthorizationRule", "VotingRule", "OperationalRule"}

\* C25: validate_transaction returns Rejected exactly when some active rule blocks, with the
\* blocking message of every such rule in the order of the rules; otherwise
\* ApprovedWithWarnings with every warning exactly when some active rule warns; otherwise
\* Approved.  A rule that is inactive or of a type without a handler adds no message, and
\* the call leaves the rules, the proposals, the voting records and the history as they were.
C25_ValidateResult ==
    [][ query_last'.op = "validate_transaction" =>
          LET transaction == query_last'.tx
              result == query_last'.result
              blocking == MessagesOf(SelectSeq(Outcomes(transaction), IsBlocking))
              warnings == MessagesOf(SelectSeq(Outcomes(transaction), IsWarning))
              speaking == { i \in 1..Len(rules) :
                              rules[i].active /\ rules[i].rule_type \in HandledRuleTypes }
          IN  /\ result.result = "Rejected" <=> blocking # <<>>
              /\ result.result = "Rejected" => result.messages = blocking
              /\ result.result = "ApprovedWithWarnings" <=>
                    (blocking = <<>> /\ warnings # <<>>)
              /\ result.result = "ApprovedWithWarnings" => result.messages = warnings
              /\ result.result = "Approved" <=> (blocking = <<>> /\ warnings = <<>>)
              /\ result.result \in {"Rejected", "ApprovedWithWarnings", "Approved"}
              /\ Len(blocking) + Len(warnings) <= Cardinality(speaking)
              /\ UNCHANGED <<rules, active_proposals, voting_records,
                             constitutional_history>> ]_all_vars

\* two active rules block the transaction, a third one only warns, and an inactive rule
\* says nothing
C25_Witness ==
    /\ Validated
    /\ query_last.result.result = "Rejected"
    /\ Len(query_last.result.messages) = 2
    /\ query_last.tx.data = "null"
    /\ \E i \in 1..Len(rules) : rules[i].active

\* a rejection with an inactive rule that would have blocked, next to warnings only
C25_WitnessInactive ==
    /\ Validated
    /\ query_last.result.result = "ApprovedWithWarnings"
    /\ \E i \in 1..Len(rules) :
          ~rules[i].active /\ IsBlocking(apply_rule(rules[i], query_last.tx))

Foundational == rules = foundational_rules

\* C26: with the foundational rules, validate_transaction returns Rejected for every
\* ConstitutionalAmendment and every EmergencyAction whose sender is not the root entity
\* (neither "Artifact Virtual" nor "Artifact Virtual Intelligence").
C26_SupremacyBlocks ==
    (/\ Validated
     /\ Foundational
     /\ requires_artifact_virtual_approval(query_last.tx)
     /\ query_last.tx.sender \notin {ARTIFACT_VIRTUAL, ROOT})
        => query_last.result.result = "Rejected"

DemocraticMessage == "Action requires democratic voting process"

InSeq(x, seq) == \E i \in 1..Len(seq) : seq[i] = x

\* C27: with the foundational rules, validate_transaction returns Rejected for every
\* GovernanceProposal, ResourceAllocation and AIModelUpdate whose constitutional_validation
\* is false, and the democratic voting rule blocks no other transaction: its message is in
\* the result for those transactions only.
C27_DemocraticVoting ==
    (Validated /\ Foundational) =>
        LET transaction == query_last.tx
            needs_vote ==
                /\ transaction.transaction_type \in
                      {"GovernanceProposal", "ResourceAllocation", "AIModelUpdate"}
                /\ ~transaction.constitutional_validation
        IN  /\ needs_vote => query_last.result.result = "Rejected"
            /\ needs_vote <=> InSeq(DemocraticMessage, query_last.result.messages)

C27_Witness ==
    /\ Validated
    /\ Foundational
    /\ query_last.tx.transaction_type = "AIModelUpdate"
    /\ ~query_last.tx.constitutional_validation
    /\ query_last.result = Rejected(<<DemocraticMessage>>)

\* C28: with the foundational rules, a transaction whose payload is null or empty is
\* warned about and not blocked by the transparency rule: unless validate_transaction
\* returns Rejected, it returns ApprovedWithWarnings.
C28_EmptyPayloadWarned ==
    (/\ Validated
     /\ Foundational
     /\ query_last.tx.data \in {"null", "{}"}
     /\ query_last.result.result # "Rejected")
        => query_last.result.result = "ApprovedWithWarnings"

\* the part of C28 the code keeps: a null payload is warned about
C28_NullPayloadWarned ==
    (/\ Validated
     /\ Foundational
     /\ query_last.tx.data = "null"
     /\ query_last.result.result # "Rejected")
        => query_last.result = ApprovedWithWarnings(<<"Transaction lacks detailed documentation">>)

(***************************************************************************)
(* Properties of the engine under all its operations                       *)
(***************************************************************************)
\* C24: the history is append-only over submit_proposal, cast_vote, validate_transaction
\* (and get_stats): before each call it is a prefix of what it is after.  A submit_proposal
\* that returns Ok adds exactly one ProposalSubmitted event; a cast_vote that returns Ok
\* adds one VoteCast event, followed by one ProposalResolved event exactly when the vote
\* resolves the proposal; a call that returns an error and a read-only call add nothing.
C24_HistoryAppendOnly ==
    [][ LET call == engine_last'
            id == engine_last'.proposal_id
            added == SubSeq(constitutional_history', Len(constitutional_history) + 1,
                            Len(constitutional_history'))
        IN  /\ IsPrefix(constitutional_history, constitutional_history')
            /\ (call.op = "submit_proposal" /\ call.result = Ok) =>
                    added = << ConstitutionalEvent("ProposalSubmitted", id) >>
            /\ (call.op = "cast_vote" /\ call.result = Ok) =>
                    added = IF active_proposals'[id].status # "VotingActive"
                            THEN << ConstitutionalEvent("VoteCast", id),
                                    ConstitutionalEvent("ProposalResolved", id) >>
                            ELSE << ConstitutionalEvent("VoteCast", id) >>
            /\ (call.op \in {"submit_proposal", "cast_vote"} /\ call.result # Ok) =>
                    added = <<>>
            /\ call.op \in {"validate_transaction", "get_stats", "tick"} =>
                    added = <<>> ]_all_vars

\* a proposal was submitted and resolved by its second vote, another call was refused and
\* validate_transaction was called: the history holds the four events in order
C24_Witness ==
    /\ engine_last.op = "validate_transaction"
    /\ query_last.op = "validate_transaction"
    /\ \E id \in GovernanceIds :
          constitutional_history =
              << ConstitutionalEvent("ProposalSubmitted", id),
                 ConstitutionalEvent("VoteCast", id),
                 ConstitutionalEvent("VoteCast", id),
                 ConstitutionalEvent("ProposalResolved", id) >>

Expired(id) ==
    /\ id \in DOMAIN active_proposals
    /\ active_proposals[id].status = "VotingActive"
    /\ now > active_proposals[id].voting_deadline

\* C29: the deadline is enforced lazily.  A step of the clock changes no proposal.  A
\* proposal that is VotingActive past its deadline is kept as it is by every call other
\* than a cast_vote on it or a submit_proposal under its id (votes on other proposals,
\* submissions under other ids, validate_transaction, get_stats), and the first cast_vote
\* on it takes it out of VotingActive.
C29_LazyDeadline ==
    [][ /\ engine_last'.op = "tick" => active_proposals' = active_proposals
        /\ \A id \in DOMAIN active_proposals :
              Expired(id) =>
                IF engine_last'.op = "cast_vote" /\ engine_last'.proposal_id = id
                THEN /\ id \in DOMAIN active_proposals'
                     /\ active_proposals'[id].status # "VotingActive"
                ELSE IF /\ engine_last'.op = "submit_proposal"
                        /\ engine_last'.result = Ok
                        /\ engine_last'.proposal_id = id
                THEN TRUE
                ELSE /\ id \in DOMAIN active_proposals'
                     /\ active_proposals'[id] = active_proposals[id] ]_all_vars

\* "p1" is past its deadline and still VotingActive after a vote on "p2" was accepted
C29_Witness ==
    /\ Expired("p1")
    /\ engine_last.op = "cast_vote"
    /\ engine_last.result = Ok
    /\ engine_last.proposal_id = "p2"
    /\ active_proposals["p1"].votes # <<>>

\* the first cast_vote on "p1" after its deadline was refused and closed it
C29_WitnessClosed ==
    /\ engine_last.op = "cast_vote"
    /\ engine_last.proposal_id = "p1"
    /\ engine_last.result = "Voting deadline has passed"
    /\ active_proposals["p1"].status = "QuorumNotMet"
    /\ "p2" \in DOMAIN active_proposals

(***************************************************************************)
(* Properties of the genesis builder                                       *)
(***************************************************************************)
BuiltAndSealed ==
    /\ genesis_built # <<>>
    /\ Len(chain) = 2
    /\ validate_config(genesis_config) = Ok

\* C30: the blocks of build_dual_genesis are linked for the ledger: once both are sealed
\* with mine_block and appended in order, the hash stored for the root block is the
\* previous_hash of the subordinate block and is_chain_valid is true.
C30_DualGenesisLinked ==
    BuiltAndSealed =>
        /\ chain[1].hash = genesis_built[2].previous_hash
        /\ is_chain_valid(chain)

\* what the code does instead: the link is the digest of five fields taken before mining,
\* the stored hash the digest of six fields after it, and the chain is never valid
C30_DualGenesisNeverLinked ==
    BuiltAndSealed =>
        /\ chain[2].previous_hash = calculate_temporary_hash(genesis_built[1])
        /\ chain[1].hash = calculate_hash(chain[1])
        /\ chain[2].previous_hash # chain[1].hash
        /\ ~is_chain_valid(chain)

Built == genesis_built # <<>>

ValidConfig == validate_config(genesis_config) = Ok

\* C31: for every configuration validate_config accepts, build_dual_genesis returns a root
\* block with index 0, no parent entity and the all-zero previous_hash, and a subordinate
\* block with index 1, a previous_hash of 64 characters and the root entity as the parent
\* of its entity; both carry entity metadata, nonce 0 and the configured difficulty, and a
\* second build from the same configuration returns the same blocks.
C31_DualGenesisShape ==
    (Built /\ ValidConfig) =>
        LET root == genesis_built[1]
            subordinate == genesis_built[2]
        IN  /\ root.index = 0
            /\ root.data.entity_metadata # None
            /\ root.data.entity_metadata[1].parent_entity = None
            /\ root.previous_hash = AllZeroHash
            /\ subordinate.index = 1
            /\ hex_len(subordinate.previous_hash) = DigestLength
            /\ subordinate.data.entity_metadata # None
            /\ subordinate.data.entity_metadata[1].parent_entity =
                  Some(root.data.entity_metadata[1].name)
            /\ root.nonce = 0
            /\ subordinate.nonce = 0
            /\ root.difficulty = genesis_config.initial_difficulty
            /\ subordinate.difficulty = genesis_config.initial_difficulty
            /\ build_dual_genesis(genesis_config) = genesis_built

\* what holds of C31: everything but the parent, which is the fixed name "Artifact Virtual"
\* whatever the root entity is called
C31_DualGenesisShapeFixedParent ==
    (Built /\ ValidConfig) =>
        LET root == genesis_built[1]
            subordinate == genesis_built[2]
        IN  /\ root.index = 0
            /\ root.data.entity_metadata # None
            /\ root.data.entity_metadata[1].parent_entity = None
            /\ root.data.entity_metadata[1].name = genesis_config.artifact_virtual_config.name
            /\ root.previous_hash = AllZeroHash
            /\ subordinate.index = 1
            /\ hex_len(subordinate.previous_hash) = DigestLength
            /\ subordinate.data.entity_metadata # None
            /\ subordinate.data.entity_metadata[1].parent_entity = Some(ARTIFACT_VIRTUAL)
            /\ root.nonce = 0
            /\ subordinate.nonce = 0
            /\ root.difficulty = genesis_config.initial_difficulty
            /\ subordinate.difficulty = genesis_config.initial_difficulty
            /\ build_dual_genesis(genesis_config) = genesis_built

\* C32: validate_config returns an error exactly when the root name is empty, the root has
\* no maintainer, the subordinate name is empty, the subordinate has no maintainer or the
\* initial difficulty is 0; it accepts the configuration of new() and writes nothing.
C32_ValidateConfig ==
    [][ genesis_last'.op = "validate_config" =>
          /\ genesis_last'.result # Ok <=>
                \/ genesis_config.artifact_virtual_config.name = ""
                \/ Len(genesis_config.artifact_virtual_config.maintainers) = 0
                \/ genesis_config.ava_config.name = ""
                \/ Len(genesis_config.ava_config.maintainers) = 0
                \/ genesis_config.initial_difficulty = 0
          /\ genesis_config = default_genesis_config => genesis_last'.result = Ok
          /\ UNCHANGED <<genesis_config, genesis_built, vars>> ]_all_vars

\* the configuration of new() was validated and accepted
C32_Witness ==
    /\ genesis_config = default_genesis_config
    /\ genesis_last = GenesisCall("validate_config", Ok)

\* a configuration wrong in its difficulty only was refused
C32_WitnessRefused ==
    /\ genesis_last = GenesisCall("validate_config",
                                  "Initial difficulty must be greater than 0")
    /\ genesis_config.artifact_virtual_config.name # ""
    /\ genesis_built # <<>>

(***************************************************************************)
(* Properties of the ledger over whole runs                                *)
(***************************************************************************)
\* the transactions of the blocks of c from index `from` on, in chain order
RECURSIVE BlockTransactions(_, _)
BlockTransactions(c, from) ==
    IF c = <<>> THEN <<>>
    ELSE BlockTransactions(SubSeq(c, 1, Len(c) - 1), from)
         \o (IF c[Len(c)].index >= from THEN c[Len(c)].data.transactions ELSE <<>>)

\* C33: transaction ids are unique in the ledger: no two transactions of the sealed
\* blocks and the pending pool together have the same id.
C33_UniqueTransactionIds ==
    LET held == BlockTransactions(chain, 0) \o pending_transactions
    IN  \A i, j \in 1..Len(held) : i # j => held[i].id # held[j].id

\* the transactions accepted and kept: sealed after the genesis pair, then pending
Accepted(c, pool) == BlockTransactions(c, 2) \o pool

\* C35: no accepted transaction is lost, duplicated or reordered: the transactions of the
\* blocks with index >= 2 in chain order followed by the pending pool are the transactions
\* add_transaction returned Ok for, in the order of acceptance.  Every step leaves that
\* sequence as it is, except an accepting add_transaction, which appends its transaction;
\* before genesis the sequence is empty.
C35_AcceptedKeptInOrder ==
    [][ /\ Accepted(chain', pending_transactions') =
              IF last'.op = "add_transaction" /\ last'.result = Ok
              THEN Append(Accepted(chain, pending_transactions), last'.tx)
              ELSE Accepted(chain, pending_transactions)
        /\ ~genesis_created => Accepted(chain, pending_transactions) = <<>> ]_vars

\* a transaction was sealed in block 2 and a different one accepted after it
C35_Witness ==
    /\ Len(chain) = 3
    /\ Len(pending_transactions) = 1
    /\ last.op = "add_transaction"
    /\ last.result = Ok
    /\ chain[3].data.transactions # pending_transactions

\* C36: genesis_created is true exactly when the chain is not empty, and then the chain
\* has at least 2 blocks and the mapping 2 entities; the pool is empty while
\* genesis_created is false.  So create_block never succeeds before genesis, never returns
\* "No previous block found", and the chain has a last block whenever genesis_created.
C36_GenesisFlag ==
    /\ genesis_created <=> chain # <<>>
    /\ genesis_created => (Len(chain) >= 2 /\ Cardinality(DOMAIN entities) = 2)
    /\ ~genesis_created => pending_transactions = <<>>
    /\ (last.op \in {"create_block", "mine_pending_transactions"} /\ last.result = Ok)
          => (genesis_created /\ Len(chain) >= 3)
    /\ last.result # "No previous block found"

\* create_block was called before genesis and refused
C36_Witness ==
    /\ ~genesis_created
    /\ last.op = "create_block"
    /\ last.result = "No pending transactions"
    /\ chain = <<>>

WeightedVote(voter, vote_type, weight, rationale, timestamp) ==
    [voter |-> voter, vote_type |-> vote_type, weight |-> weight,
     rationale |-> rationale, timestamp |-> timestamp]

CarriedVotes == [voter \in {"v4", "v5"} |-> WeightedVote(voter, "For", 1, None, 0)]

VotingProposals ==
    { Proposal("p1", "Test Proposal", MaxNow, <<1, 5>>, <<67, 100>>, <<>>, "Draft"),
      Proposal("p1", "Test Proposal", 1, <<3, 10>>, <<67, 100>>, <<>>, "Draft"),
      Proposal("p1", "Test Proposal", MaxNow, <<1, 5>>, <<67, 100>>, CarriedVotes, "Draft") }

VotingVotes ==
    { WeightedVote("v1", "For", 1, None, 0),
      WeightedVote("v1", "Against", 5, Some("rationale"), 1),
      WeightedVote("v2", "For", 0, None, 0),
      WeightedVote("v2", "For", 5, Some("rationale"), 1),
      WeightedVote("v3", "For", 1, None, 1) }

VotingNext ==
    \/ Tick /\ UNCHANGED <<vars, mine_vars, rule_vars, genesis_vars>>
    \/ SubmitProposalFrom(VotingProposals, MaxProposals)
          /\ UNCHANGED <<vars, mine_vars, rule_vars, genesis_vars>>
    \/ CastVoteWith(CastIds, VotingVotes)
          /\ UNCHANGED <<vars, mine_vars, rule_vars, genesis_vars>>

SpecVoting == EngineInit /\ [][VotingNext]_all_vars

(***************************************************************************)
(* Properties of voting over whole runs                                    *)
(***************************************************************************)
\* the events of one type that a history holds for one proposal
Events(history, event_type, id) ==
    Cardinality({ i \in DOMAIN history :
                    history[i].event_type = event_type /\ history[i].proposal_id = id })

\* the smallest n >= 1 with n / eligible_voters >= required_quorum, in exact arithmetic
QuorumVotes(required_quorum) ==
    CHOOSE n \in 1..eligible_voters :
        /\ n * required_quorum[2] >= eligible_voters * required_quorum[1]
        /\ \A m \in 1..(n - 1) :
              m * required_quorum[2] < eligible_voters * required_quorum[1]

\* a recorded vote that brings participation to the quorum resolves the proposal, and a
\* resolved proposal records no vote
ResolvedAtQuorum(id) ==
    id \in DOMAIN active_proposals =>
        /\ ( /\ active_proposals'[id].votes # active_proposals[id].votes
              /\ Cardinality(DOMAIN active_proposals'[id].votes)
                    >= QuorumVotes(active_proposals'[id].required_quorum) )
              => active_proposals'[id].status \in {"Approved", "Rejected"}
        /\ active_proposals[id].status # "VotingActive"
              => active_proposals'[id].votes = active_proposals[id].votes

ResolvedOnce(id) ==
    /\ Events(constitutional_history', "ProposalResolved", id) <= 1
    /\ id \in DOMAIN voting_records => voting_records'[id] = voting_records[id]

VotesWithinQuorum(id) ==
    Cardinality(DOMAIN active_proposals'[id].votes)
        <= QuorumVotes(active_proposals'[id].required_quorum)

\* C38: a proposal resolves at the first recorded vote at which participation reaches the
\* quorum and no vote is recorded after that: a proposal submitted once never holds more
\* votes than the smallest n >= 1 with n/10 >= required_quorum, gets at most one
\* ProposalResolved event, and its VotingRecord, once written, is never overwritten.
C38_ResolvesAtQuorum ==
    [][ \A id \in DOMAIN active_proposals' :
          Events(constitutional_history', "ProposalSubmitted", id) <= 1 =>
              /\ ResolvedAtQuorum(id)
              /\ VotesWithinQuorum(id)
              /\ ResolvedOnce(id) ]_all_vars

\* C38 amended: the same, the bound on the number of votes being for a proposal that held
\* no votes when it was submitted.
C38_ResolvesAtQuorumFromNoVotes ==
    [][ \A id \in DOMAIN active_proposals' :
          Events(constitutional_history', "ProposalSubmitted", id) <= 1 =>
              /\ ResolvedAtQuorum(id)
              /\ submitted_votes'[id] = <<>> => VotesWithinQuorum(id)
              /\ ResolvedOnce(id) ]_all_vars

\* a proposal submitted once with no votes, resolved by its quorum of votes, has refused
\* a later vote
C38_Witness ==
    /\ "p1" \in DOMAIN active_proposals
    /\ Events(constitutional_history, "ProposalSubmitted", "p1") = 1
    /\ submitted_votes["p1"] = <<>>
    /\ Cardinality(DOMAIN active_proposals["p1"].votes)
          = QuorumVotes(active_proposals["p1"].required_quorum)
    /\ active_proposals["p1"].status \in {"Approved", "Rejected"}
    /\ "p1" \in DOMAIN voting_records
    /\ Events(constitutional_history, "ProposalResolved", "p1") = 1
    /\ engine_last.op = "cast_vote"
    /\ engine_last.result = "Proposal is not accepting votes"

\* a proposal submitted with two votes and a quorum of two holds three votes
C38_WitnessCarried ==
    /\ "p1" \in DOMAIN active_proposals
    /\ Events(constitutional_history, "ProposalSubmitted", "p1") = 1
    /\ submitted_votes["p1"] = CarriedVotes
    /\ Cardinality(DOMAIN active_proposals["p1"].votes) = 3

\* a vote with the weight, rationale and timestamp of the test's vote
Unweighted(vote) ==
    [vote EXCEPT !.weight = 1, !.rationale = None, !.timestamp = 0]

UnweightedVotes(votes) == [voter \in DOMAIN votes |-> Unweighted(votes[voter])]

UnweightedProposals(proposals) ==
    [id \in DOMAIN proposals |-> [proposals[id] EXCEPT !.votes = UnweightedVotes(@)]]

\* C39: the outcome of voting does not depend on the weight, rationale or timestamp of
\* the votes: every submit_proposal and cast_vote step leaves the statuses, the votes'
\* voters and choices, the VotingRecords and the history that the same call leaves on the
\* same engine with every vote given weight 1.0, no rationale and one timestamp; two runs
\* of one sequence of calls differing only in these fields therefore agree on them.
C39_WeightIndependent ==
    [][ /\ (engine_last'.op = "submit_proposal" /\ engine_last'.result = Ok) =>
              /\ UnweightedProposals(active_proposals') =
                    Insert(UnweightedProposals(active_proposals), engine_last'.proposal_id,
                           submitted([engine_last'.proposal EXCEPT
                                          !.votes = UnweightedVotes(@)], now))
              /\ UNCHANGED voting_records
        /\ engine_last'.op = "cast_vote" =>
              LET proposal_id == engine_last'.proposal_id
              IN  /\ engine_last'.result =
                        cast_vote_result(UnweightedProposals(active_proposals), proposal_id, now)
                  /\ engine_last'.result = Ok =>
                        LET after == cast_vote_recorded(UnweightedProposals(active_proposals),
                                                        voting_records, constitutional_history,
                                                        proposal_id,
                                                        Unweighted(engine_last'.vote), now')
                        IN  /\ UnweightedProposals(active_proposals') = after[1]
                            /\ voting_records' = after[2]
                            /\ constitutional_history' = after[3]
                  /\ engine_last'.result # Ok =>
                        /\ UnweightedProposals(active_proposals')
                              = IF engine_last'.result = "Voting deadline has passed"
                                THEN [UnweightedProposals(active_proposals)
                                          EXCEPT ![proposal_id].status = "QuorumNotMet"]
                                ELSE UnweightedProposals(active_proposals)
                        /\ UNCHANGED <<voting_records, constitutional_history>> ]_all_vars

\* a proposal resolved by two votes of weights 1 and 5, the second with a rationale and
\* a later timestamp
C39_Witness ==
    /\ "p1" \in DOMAIN active_proposals
    /\ active_proposals["p1"].status = "Approved"
    /\ "p1" \in DOMAIN voting_records
    /\ voting_records["p1"].votes_for = 2
    /\ \E v, w \in DOMAIN active_proposals["p1"].votes :
          /\ active_proposals["p1"].votes[v].weight = 1
          /\ active_proposals["p1"].votes[w].weight = 5
          /\ active_proposals["p1"].votes[w].rationale # None
    /\ engine_last.op = "cast_vote"
    /\ engine_last.result = Ok

(***************************************************************************)
(* Properties of mine_block over the whole range of the nonce              *)
(***************************************************************************)
\* the nonces from the starting one up that give a digest meeting the difficulty
FittingNonces ==
    { n \in mine_from.nonce..MaxNonce : mine_found([mine_from EXCEPT !.nonce = n]) }

Smallest(set) == CHOOSE n \in set : \A m \in set : n <= m

\* C37: mine_block returns only if some nonce at or above the starting nonce gives a
\* digest with `difficulty` leading zeros, and then it has stopped at the smallest such
\* nonce and changed no other field of the block; with difficulty 0 it returns with the
\* nonce unchanged; with a target longer than the digest it does not return.
C37_MineBlockStopsAtSmallest ==
    /\ mine_pc = "returned" =>
          /\ FittingNonces # {}
          /\ mine_at = [mine_from EXCEPT !.nonce = Smallest(FittingNonces)]
          /\ mine_from.difficulty = 0 => mine_at = mine_from
    /\ mine_from.difficulty > MaxDifficulty => mine_pc # "returned"

\* C37, the other direction: if some nonce at or above the starting one fits, mine_block
\* returns
C37_ReturnsWhenANonceFits == (FittingNonces # {}) ~> (mine_pc = "returned")

\* what holds of C37 in every build: a search that ends at or above its starting nonce
\* ended at the smallest fitting one, and a target longer than the digest is never met
C37_StopsAtSmallestUnlessWrapped ==
    /\ (mine_pc = "returned" /\ mine_at.nonce >= mine_from.nonce) =>
          /\ FittingNonces # {}
          /\ mine_at = [mine_from EXCEPT !.nonce = Smallest(FittingNonces)]
          /\ mine_from.difficulty = 0 => mine_at = mine_from
    /\ mine_from.difficulty > MaxDifficulty => mine_pc # "returned"
    /\ mine_pc = "panicked" => FittingNonces = {}

====
